---- MODULE Spec2Model ----
(***************************************************************************)
(* StarCore TCG card publishing workflow.                                  *)
(*                                                                         *)
(* A model of CardStateManager (src/card_state_manager.py): the in-memory  *)
(* map card_id -> CardState, the JSON state file it is loaded from and     *)
(* saved to, and the operations create_card_state, transition_state,       *)
(* bulk_transition, can_transition, get_stats, get_cards_by_state and      *)
(* delete_card_state.  Timestamps are readings of a clock                  *)
(* (datetime.now()); each reading is later than the one before, so two     *)
(* timestamps written by different calls differ.  Every step is one call   *)
(* of one method, run to completion; op, ret, raised and changed record    *)
(* what the last call was, what it returned or raised and which records it *)
(* moved.                                                                  *)
(*                                                                         *)
(* Spec is one manager on a new data directory.  SpecLoad opens a manager  *)
(* on a state file that is already there, SpecDegraded lets the file stop  *)
(* being writable, SpecCrash lets the process die inside _save_states,     *)
(* SpecTwo runs two managers on one file, and SpecScenario takes a card    *)
(* generated by src/resource_core_generator.py through the workflow.       *)
(* SpecGen runs generate_resource_core statement by statement, and         *)
(* SpecRoll calls roll_tier, roll_quality and weighted_roll on their own.  *)
(* SpecRarity calls determine_rarity on every tier and quality,            *)
(* SpecEdited opens a manager on a state file edited by hand, and SpecIds  *)
(* follows the lifecycle states each card id has had.  SpecDb calls the    *)
(* operations of src/card_database.py, SpecMirror gives the same requests  *)
(* to the table and to the manager, and SpecPage clicks the generate       *)
(* buttons of the two generator pages.                                     *)
(***************************************************************************)
EXTENDS Integers, Sequences, FiniteSets, TLC

VARIABLES
    states,         \* self.states: card_id -> CardState
    state_file,     \* content of data/card_states.json: card_id -> dict
    file_kind,      \* what the text of card_states.json is (FileKinds)
    writable,       \* whether card_states.json can be opened for writing
    raised,         \* the exception the last call raised, "" when none
    interrupted,    \* history: <<content before, content being written>> of
                    \* a save the process died in, <<>> when there is none
    states2,        \* self.states of a second CardStateManager
    core,           \* the ResourceCore generated last; in SpecGen also the
                    \* locals of the generate_resource_core call under way
    clock,          \* last reading of datetime.now()
    op,             \* the operation the last step called
    ret,            \* what that call returned (after weighted_roll, next
                    \* to the arguments of the call)
    changed,        \* history: ids whose record changed state in that call
    was_published,  \* history: ids whose record has been in "published"
    db,             \* what os.getenv("DATABASE_URL") leads to (DbStatuses)
    cards,          \* the table generated_cards: card_id -> GeneratedCard
    page,           \* the generate handlers of the pages: core_size, attempts,
                    \* clicks served, st.session_state.generated_cards
    id_states       \* history: <<card_id, state>> for every lifecycle state
                    \* a record of that card_id has been in

\* the state outside the manager and the generator
app_vars == <<db, cards, page, id_states>>

vars ==
    <<states, state_file, file_kind, writable, raised, interrupted, states2,
      core, clock, op, ret, changed, was_published, app_vars>>

----------------------------------------------------------------------------
(* Bounds of the model *)

MaxTime == 4          \* the clock is read at most MaxTime times
MaxBulkLen == 2       \* bulk_transition is given lists of 0..MaxBulkLen ids

(* Inputs the operations are called with *)
CardIds == {"a", "b"}
CardTypes == {"resource_core", "commander"}
Notes == {"", "note"}
\* new_state arguments: the lifecycle states and one that is none of them
NewStates == {"draft", "published", "archived", "deleted"}

----------------------------------------------------------------------------
(* CardState and the tables of CardStateManager *)

\* Optional[str] = None: the value of a timestamp that has not been set
None == -1

CardStateFields ==
    {"card_id", "card_type", "state", "created_at",
     "published_at", "archived_at", "version", "notes"}

\* CardState(card_id=, card_type=, state=, created_at=, notes=) with the
\* dataclass defaults for the other fields
CardState(card_id, card_type, state, created_at, notes) ==
    [card_id |-> card_id, card_type |-> card_type, state |-> state,
     created_at |-> created_at, published_at |-> None, archived_at |-> None,
     version |-> 1, notes |-> notes]

VALID_STATES == {"draft", "published", "archived"}

\* a transition table that lets a published card go back to draft
VALID_TRANSITIONS_unpublish ==
    [s \in VALID_STATES |->
        CASE s = "draft" -> {"published", "archived"}
          [] s = "published" -> {"archived", "draft"}
          [] s = "archived" -> {}]

VALID_TRANSITIONS ==
    [s \in VALID_STATES |->
        CASE s = "draft" -> {"published", "archived"}
          [] s = "published" -> {"archived"}
          [] s = "archived" -> {}]

\* dict.get(key, default)
DictGet(d, k, default) == IF k \in DOMAIN d THEN d[k] ELSE default

\* d[k] = v
DictSet(d, k, v) == [x \in DOMAIN d \cup {k} |-> IF x = k THEN v ELSE d[x]]

\* del d[k]
DictDel(d, k) == [x \in DOMAIN d \ {k} |-> d[x]]

EmptyDict == [x \in {} |-> None]

\* dataclasses.asdict: the record as a mapping field name -> value
asdict(cs) == [k \in CardStateFields |-> cs[k]]

\* _save_states: the file content written for the map S
save_states(S) == [card_id \in DOMAIN S |-> asdict(S[card_id])]

\* What the text of card_states.json can be.  "json" is a JSON object, held
\* in state_file as a mapping key -> dict; for the other kinds state_file
\* holds no content: "missing" is no file, "empty" a file of zero bytes,
\* "text" text that json.load rejects (a part of a JSON document is such a
\* text), "list" a JSON document that is not an object.
FileKinds == {"json", "missing", "empty", "text", "list"}

\* the fields of CardState without a default value
RequiredFields == {"card_id", "card_type", "state", "created_at"}

Defaults ==
    [published_at |-> None, archived_at |-> None, version |-> 1, notes |-> ""]

\* CardState(**state_data) raises TypeError for a keyword that is no field
\* and for a field without default that is not given
CardState_raises(state_data) ==
    \/ ~(DOMAIN state_data \subseteq CardStateFields)
    \/ ~(RequiredFields \subseteq DOMAIN state_data)

\* CardState(**state_data) reading only the fields without a default
CardState_kw_required(state_data) ==
    [k \in CardStateFields |->
        IF k \in RequiredFields THEN state_data[k] ELSE Defaults[k]]

\* CardState(**state_data) when it does not raise
CardState_kw(state_data) ==
    [k \in CardStateFields |->
        IF k \in DOMAIN state_data THEN state_data[k] ELSE Defaults[k]]

\* _load_states that catches FileNotFoundError only
load_states_nocatch(K, F) ==
    CASE K = "missing" -> [states |-> EmptyDict, raised |-> ""]
      [] K \in {"empty", "text"} ->
            [states |-> EmptyDict, raised |-> "JSONDecodeError"]
      [] K = "list" -> [states |-> EmptyDict, raised |-> "AttributeError"]
      [] K = "json" ->
            IF \E card_id \in DOMAIN F : CardState_raises(F[card_id])
            THEN [states |-> EmptyDict, raised |-> "TypeError"]
            ELSE [states |->
                      [card_id \in DOMAIN F |-> CardState_kw(F[card_id])],
                  raised |-> ""]

\* _load_states on a file of kind K and content F: the map it returns, or
\* the exception that leaves it.  open() raises FileNotFoundError and
\* json.load raises JSONDecodeError, which are caught; data.items() raises
\* AttributeError on a list and CardState(**state_data) raises TypeError,
\* which are not.
load_states(K, F) ==
    CASE K = "missing" -> [states |-> EmptyDict, raised |-> ""]
      [] K \in {"empty", "text"} -> [states |-> EmptyDict, raised |-> ""]
      [] K = "list" -> [states |-> EmptyDict, raised |-> "AttributeError"]
      [] K = "json" ->
            IF \E card_id \in DOMAIN F : CardState_raises(F[card_id])
            THEN [states |-> EmptyDict, raised |-> "TypeError"]
            ELSE [states |->
                      [card_id \in DOMAIN F |-> CardState_kw(F[card_id])],
                  raised |-> ""]

\* _ensure_data_dir: a missing file is created with the text of json.dumps({})
ensure_data_dir(K, F) ==
    IF K = "missing"
    THEN [kind |-> "json", file |-> EmptyDict]
    ELSE [kind |-> K, file |-> F]

\* CardStateManager(data_dir): __init__ on a directory whose state file is of
\* kind K with content F
CardStateManager(K, F) ==
    LET e == ensure_data_dir(K, F)
        l == load_states(e.kind, e.file)
    IN  [states |-> l.states, kind |-> e.kind, file |-> e.file,
         raised |-> l.raised]

----------------------------------------------------------------------------
(* ResourceCore (src/resource_core_generator.py): the card id *)

ResourceTypes == {"Energy", "Matter", "Signal", "Life", "Omni"}

\* hashlib.sha256(core_data.encode()).hexdigest() is 64 hexadecimal digits
\* fixed by core_data, which ends with the reading of datetime.now(); the
\* model draws it from the digests of two core_data strings
Sha256HexDigests ==
    {"39436f3be845e0a4f81e73b0b259b0cfc315178c07fdb9e2cdd22898be86615c",
     "a12bca25d3d0c9a100af00ca9bdcf26f1f21c52b7889432c7dd481817740ba85"}

\* s[:n]
Slice(s, n) == SubSeq(s, 1, IF Len(s) < n THEN Len(s) ELSE n)

\* __post_init__ taking the whole digest as the id
post_init_whole(card_id, hexdigest) ==
    IF card_id = "" THEN hexdigest ELSE card_id

\* ResourceCore.__post_init__: the card_id of a core constructed with the
\* given card_id, hexdigest being the digest of its core_data
post_init(card_id, hexdigest) ==
    IF card_id = "" THEN Slice(hexdigest, 12) ELSE card_id

\* no core has been generated
NoCore == [resource_type |-> "", card_id |-> ""]

----------------------------------------------------------------------------
(* Floating-point numbers of determine_rarity.  A double x >= 1/2 is held   *)
(* as the integer x * 2^53, written in three digits of base 2^20:           *)
(* <<d0, d1, d2>> is d0 + d1 * 2^20 + d2 * 2^40.  An operation yields the   *)
(* exact result rounded to 53 significant bits, ties to even.               *)

LimbBase == 1048576          \* 2^20
IntUnit == 8192              \* the integer n is <<0, 0, n * 2^13>>

\* the double nearest to 0.7, 6305039478318694 / 2^53
Double_0_7 == <<419430, 419430, 5734>>

RECURSIVE BitLen(_)
BitLen(n) == IF n = 0 THEN 0 ELSE 1 + BitLen(n \div 2)

RECURSIVE Pow2(_)
Pow2(k) == IF k = 0 THEN 1 ELSE 2 * Pow2(k - 1)

\* the digits brought below the base, the carries taken over
Carry(d0, d1, d2) ==
    LET e1 == d1 + (d0 \div LimbBase)
    IN  <<d0 % LimbBase, e1 % LimbBase, d2 + (e1 \div LimbBase)>>

\* rounding that cuts the bits below the 53 kept ones
RoundDouble_down(X) ==
    LET k == BitLen(X[3]) - 13
    IN  IF k <= 0 THEN X ELSE Carry(X[1] - (X[1] % Pow2(k)), X[2], X[3])

\* the exact value X rounded to the nearest double, ties to even: the
\* k = BitLen(X) - 53 lowest bits are dropped
RoundDouble(X) ==
    LET k == BitLen(X[3]) - 13
    IN  IF k <= 0
        THEN X
        ELSE LET unit == Pow2(k)
                 rem == X[1] % unit
                 odd == (X[1] \div unit) % 2 = 1
                 up == rem * 2 > unit \/ (rem * 2 = unit /\ odd)
             IN  Carry(X[1] - rem + (IF up THEN unit ELSE 0), X[2], X[3])

\* n * x for an int n and a double x
\* a product that falls as n rises
DoubleTimesInt_falling(n, X) ==
    RoundDouble(Carry((101 - n) * X[1], (101 - n) * X[2], (101 - n) * X[3]))

DoubleTimesInt(n, X) == RoundDouble(Carry(n * X[1], n * X[2], n * X[3]))

\* x + n for a double x and an int n
DoublePlusInt(X, n) == RoundDouble(<<X[1], X[2], X[3] + n * IntUnit>>)

\* x >= n for a double x and an int n
DoubleAtLeast(X, n) == X[3] >= n * IntUnit

----------------------------------------------------------------------------
(* The generator (src/resource_core_generator.py) *)

Sizes == {"Small", "Medium", "Large", "Massive"}

Stats == {"cost", "rpt", "hp", "links"}

Rarities == {"Common", "Uncommon", "Rare", "Epic", "Legendary"}

\* CORE_RANGES[size][stat] = <<min, max>>
CORE_RANGES ==
    [size \in Sizes |->
        CASE size = "Small" ->
                [cost |-> <<0, 0>>, rpt |-> <<2, 2>>, hp |-> <<2, 4>>,
                 links |-> <<1, 1>>]
          [] size = "Medium" ->
                [cost |-> <<1, 3>>, rpt |-> <<2, 4>>, hp |-> <<3, 5>>,
                 links |-> <<1, 2>>]
          [] size = "Large" ->
                [cost |-> <<2, 5>>, rpt |-> <<3, 6>>, hp |-> <<4, 8>>,
                 links |-> <<1, 3>>]
          [] size = "Massive" ->
                [cost |-> <<4, 8>>, rpt |-> <<5, 10>>, hp |-> <<7, 12>>,
                 links |-> <<2, 4>>]]

\* range(a, b) as a list
PyRange(a, b) == [i \in 1..(IF b > a THEN b - a ELSE 0) |-> a + i - 1]

\* random.choices(population, weights=weights, k=1)[0]: the values that can
\* be drawn are those with a positive weight
choices(population, weights) ==
    {population[i] : i \in {j \in DOMAIN population : weights[j] > 0}}

\* weights that rise with the tier
roll_tier_weights_rising == [j \in 1..10 |-> PyRange(1, 11)[j]]

\* weights = [11 - i for i in range(1, 11)]
roll_tier_weights == [j \in 1..10 |-> 11 - PyRange(1, 11)[j]]

\* roll_tier(): the tiers it can return
roll_tier == choices(PyRange(1, 11), roll_tier_weights)

\* weights = [101 - i for i in range(1, 101)]
roll_quality_weights == [j \in 1..100 |-> 101 - PyRange(1, 101)[j]]

\* roll_quality(): the qualities it can return
roll_quality == choices(PyRange(1, 101), roll_quality_weights)

\* A weight or bias w in [0, 1] is held as the integer WeightUnit * w, and
\* a selection weight of weighted_roll as 100 times its value; the rounding
\* of the doubles (a relative 2^-52) changes neither the sign of a selection
\* weight nor the order of two selection weights, which differ by w * 10 or
\* more.
WeightUnit == 1000

\* calculate_weight(tier, quality) = (tier / 10.0) * (quality / 100.0)
calculate_weight(tier, quality) ==
    (tier * (WeightUnit \div 10) * quality) \div 100

\* weights without the constant 1
weighted_roll_weights_from0(range_size, weight) ==
    [j \in 1..range_size |->
        (PyRange(0, range_size)[j] * weight * 10 * 100) \div WeightUnit]

\* weights = [1 + (i * weight * 10) for i in range(range_size)]
weighted_roll_weights(range_size, weight) ==
    [j \in 1..range_size |->
        100 + (PyRange(0, range_size)[j] * weight * 10 * 100) \div WeightUnit]

\* weighted_roll whose values start one above min_val
weighted_roll_off(min_val, max_val, weight) ==
    IF min_val = max_val
    THEN {min_val}
    ELSE LET range_size == max_val - min_val + 1
             values == PyRange(min_val + 1, max_val + 2)
         IN  choices(values, weighted_roll_weights(range_size, weight))

\* weighted_roll(min_val, max_val, weight): the values it can return
weighted_roll(min_val, max_val, weight) ==
    IF min_val = max_val
    THEN {min_val}
    ELSE LET range_size == max_val - min_val + 1
             values == PyRange(min_val, max_val + 1)
         IN  choices(values, weighted_roll_weights(range_size, weight))

\* determine_size_from_tier with the Large band one tier wider
determine_size_from_tier_wide(tier) ==
    IF tier <= 3 THEN "Small"
    ELSE IF tier <= 6 THEN "Medium"
    ELSE IF tier <= 9 THEN "Large"
    ELSE "Massive"

determine_size_from_tier(tier) ==
    IF tier <= 3 THEN "Small"
    ELSE IF tier <= 6 THEN "Medium"
    ELSE IF tier <= 8 THEN "Large"
    ELSE "Massive"

\* score = (quality * 0.7) + (tier * 3)
rarity_score(tier, quality) ==
    DoublePlusInt(DoubleTimesInt(quality, Double_0_7), tier * 3)

\* determine_rarity with Legendary from score 95
determine_rarity_legendary95(tier, quality) ==
    LET score == rarity_score(tier, quality)
    IN  IF DoubleAtLeast(score, 95) THEN "Legendary"
        ELSE IF DoubleAtLeast(score, 90) THEN "Epic"
        ELSE IF DoubleAtLeast(score, 75) THEN "Rare"
        ELSE IF DoubleAtLeast(score, 55) THEN "Uncommon"
        ELSE "Common"

determine_rarity(tier, quality) ==
    LET score == rarity_score(tier, quality)
    IN  IF DoubleAtLeast(score, 98) THEN "Legendary"
        ELSE IF DoubleAtLeast(score, 90) THEN "Epic"
        ELSE IF DoubleAtLeast(score, 75) THEN "Rare"
        ELSE IF DoubleAtLeast(score, 55) THEN "Uncommon"
        ELSE "Common"

----------------------------------------------------------------------------
(* Vocabulary of the properties *)

\* the three moves of the lifecycle draft -> published -> archived
\* the sum of the values of a dict of numbers
RECURSIVE DictSum(_)
DictSum(d) ==
    IF DOMAIN d = {}
    THEN 0
    ELSE LET k == CHOOSE k \in DOMAIN d : TRUE
         IN  d[k] + DictSum([x \in DOMAIN d \ {k} |-> d[x]])

ForwardMoves ==
    {<<"draft", "published">>, <<"draft", "archived">>,
     <<"published", "archived">>}

Range(seq) == {seq[i] : i \in 1..Len(seq)}

IsDistinct(seq) == \A i, j \in 1..Len(seq) : seq[i] = seq[j] => i = j

\* position of the last occurrence of id in seq
LastIndex(seq, id) ==
    CHOOSE i \in 1..Len(seq) :
        seq[i] = id /\ \A j \in (i + 1)..Len(seq) : seq[j] # id

----------------------------------------------------------------------------
(* The operations, as functions of the manager's state: the map S, the     *)
(* file content F and the clock T.  Each yields the new map, file content  *)
(* and clock, and the returned value.                                      *)

\* datetime.now(): every reading is later than the reading before it
now(T) == T + 1

\* create_card_state without the check for an existing record
create_card_state_overwrite(S, F, T, card_id, card_type, notes) ==
    LET state == CardState(card_id, card_type, "draft", now(T), notes)
        S2 == DictSet(S, card_id, state)
    IN  [states |-> S2, file |-> save_states(S2), saved |-> TRUE,
         clock |-> now(T),
         ret |-> state]

\* create_card_state without the call of _save_states
create_card_state_nosave(S, F, T, card_id, card_type, notes) ==
    IF card_id \in DOMAIN S
    THEN [states |-> S, file |-> F, saved |-> FALSE,
          clock |-> T, ret |-> S[card_id]]
    ELSE LET state == CardState(card_id, card_type, "draft", now(T), notes)
             S2 == DictSet(S, card_id, state)
         IN  [states |-> S2, file |-> F, saved |-> FALSE,
              clock |-> now(T), ret |-> state]

\* create_card_state that loads the map from the file before it looks up
\* card_id
create_card_state_reload(S, F, T, card_id, card_type, notes) ==
    LET S1 == load_states("json", F).states
    IN  IF card_id \in DOMAIN S1
        THEN [states |-> S1, file |-> F, saved |-> FALSE, clock |-> T,
              ret |-> S1[card_id]]
        ELSE LET state == CardState(card_id, card_type, "draft", now(T),
                                    notes)
                 S2 == DictSet(S1, card_id, state)
             IN  [states |-> S2, file |-> save_states(S2), saved |-> TRUE,
                  clock |-> now(T), ret |-> state]

create_card_state(S, F, T, card_id, card_type, notes) ==
    IF card_id \in DOMAIN S
    THEN [states |-> S, file |-> F, saved |-> FALSE,
          clock |-> T, ret |-> S[card_id]]
    ELSE LET state == CardState(card_id, card_type, "draft", now(T), notes)
             S2 == DictSet(S, card_id, state)
         IN  [states |-> S2, file |-> save_states(S2), saved |-> TRUE,
              clock |-> now(T),
              ret |-> state]

\* transition_state without the check against VALID_TRANSITIONS
transition_state_unchecked(S, F, T, card_id, new_state) ==
    IF card_id \notin DOMAIN S
    THEN [states |-> S, file |-> F, saved |-> FALSE,
          clock |-> T, ret |-> FALSE]
    ELSE LET card_state == S[card_id]
         IN  IF new_state \notin VALID_STATES
             THEN [states |-> S, file |-> F, saved |-> FALSE,
                   clock |-> T, ret |-> FALSE]
             ELSE LET cs1 == [card_state EXCEPT !.state = new_state]
                      cs2 == IF new_state = "published"
                             THEN [cs1 EXCEPT !.published_at = now(T)]
                             ELSE IF new_state = "archived"
                             THEN [cs1 EXCEPT !.archived_at = now(T)]
                             ELSE cs1
                      S2 == DictSet(S, card_id, cs2)
                  IN  [states |-> S2, file |-> save_states(S2),
                       saved |-> TRUE, clock |-> now(T), ret |-> TRUE]

\* transition_state that assigns the state before it checks VALID_TRANSITIONS
transition_state_early(S, F, T, card_id, new_state) ==
    IF card_id \notin DOMAIN S
    THEN [states |-> S, file |-> F, saved |-> FALSE,
          clock |-> T, ret |-> FALSE]
    ELSE LET card_state == S[card_id]
             current_state == card_state.state
         IN  IF new_state \notin VALID_STATES
             THEN [states |-> S, file |-> F, saved |-> FALSE,
                   clock |-> T, ret |-> FALSE]
             ELSE LET cs1 == [card_state EXCEPT !.state = new_state]
                  IN  IF new_state \notin VALID_TRANSITIONS[current_state]
                      THEN [states |-> DictSet(S, card_id, cs1), file |-> F,
                            saved |-> FALSE, clock |-> T, ret |-> FALSE]
                      ELSE LET cs2 == IF new_state = "published"
                                      THEN [cs1 EXCEPT !.published_at = now(T)]
                                      ELSE [cs1 EXCEPT !.archived_at = now(T)]
                               S2 == DictSet(S, card_id, cs2)
                           IN  [states |-> S2, file |-> save_states(S2),
                                saved |-> TRUE, clock |-> now(T),
                                ret |-> TRUE]

\* transition_state that clears published_at when it archives
transition_state_clears(S, F, T, card_id, new_state) ==
    IF card_id \notin DOMAIN S
    THEN [states |-> S, file |-> F, saved |-> FALSE,
          clock |-> T, ret |-> FALSE]
    ELSE LET card_state == S[card_id]
             current_state == card_state.state
         IN  IF new_state \notin VALID_STATES
             THEN [states |-> S, file |-> F, saved |-> FALSE,
                   clock |-> T, ret |-> FALSE]
             ELSE IF new_state \notin VALID_TRANSITIONS[current_state]
             THEN [states |-> S, file |-> F, saved |-> FALSE,
                   clock |-> T, ret |-> FALSE]
             ELSE LET cs1 == [card_state EXCEPT !.state = new_state]
                      cs2 == IF new_state = "published"
                             THEN [cs1 EXCEPT !.published_at = now(T)]
                             ELSE [cs1 EXCEPT !.archived_at = now(T),
                                              !.published_at = None]
                      S2 == DictSet(S, card_id, cs2)
                  IN  [states |-> S2, file |-> save_states(S2),
                       saved |-> TRUE, clock |-> now(T), ret |-> TRUE]

\* transition_state that stamps published_at on every transition
transition_state_restamp(S, F, T, card_id, new_state) ==
    IF card_id \notin DOMAIN S
    THEN [states |-> S, file |-> F, saved |-> FALSE,
          clock |-> T, ret |-> FALSE]
    ELSE LET card_state == S[card_id]
             current_state == card_state.state
         IN  IF new_state \notin VALID_STATES
             THEN [states |-> S, file |-> F, saved |-> FALSE,
                   clock |-> T, ret |-> FALSE]
             ELSE IF new_state \notin VALID_TRANSITIONS[current_state]
             THEN [states |-> S, file |-> F, saved |-> FALSE,
                   clock |-> T, ret |-> FALSE]
             ELSE LET cs1 == [card_state EXCEPT !.state = new_state]
                      cs2 == IF new_state = "published"
                             THEN [cs1 EXCEPT !.published_at = now(T)]
                             ELSE [cs1 EXCEPT !.published_at = now(T),
                                              !.archived_at = now(T)]
                      S2 == DictSet(S, card_id, cs2)
                  IN  [states |-> S2, file |-> save_states(S2),
                       saved |-> TRUE, clock |-> now(T), ret |-> TRUE]

\* transition_state that stamps archived_at on every transition
transition_state_stamps(S, F, T, card_id, new_state) ==
    IF card_id \notin DOMAIN S
    THEN [states |-> S, file |-> F, saved |-> FALSE,
          clock |-> T, ret |-> FALSE]
    ELSE LET card_state == S[card_id]
             current_state == card_state.state
         IN  IF new_state \notin VALID_STATES
             THEN [states |-> S, file |-> F, saved |-> FALSE,
                   clock |-> T, ret |-> FALSE]
             ELSE IF new_state \notin VALID_TRANSITIONS[current_state]
             THEN [states |-> S, file |-> F, saved |-> FALSE,
                   clock |-> T, ret |-> FALSE]
             ELSE LET cs1 == [card_state EXCEPT !.state = new_state]
                      cs2 == IF new_state = "published"
                             THEN [cs1 EXCEPT !.published_at = now(T),
                                              !.archived_at = now(T)]
                             ELSE [cs1 EXCEPT !.archived_at = now(T)]
                      S2 == DictSet(S, card_id, cs2)
                  IN  [states |-> S2, file |-> save_states(S2),
                       saved |-> TRUE, clock |-> now(T), ret |-> TRUE]

\* transition_state that counts the transition in version
transition_state_bump(S, F, T, card_id, new_state) ==
    IF card_id \notin DOMAIN S
    THEN [states |-> S, file |-> F, saved |-> FALSE,
          clock |-> T, ret |-> FALSE]
    ELSE LET card_state == S[card_id]
             current_state == card_state.state
         IN  IF new_state \notin VALID_STATES
             THEN [states |-> S, file |-> F, saved |-> FALSE,
                   clock |-> T, ret |-> FALSE]
             ELSE IF new_state \notin VALID_TRANSITIONS[current_state]
             THEN [states |-> S, file |-> F, saved |-> FALSE,
                   clock |-> T, ret |-> FALSE]
             ELSE LET cs1 == [card_state EXCEPT !.state = new_state,
                                                !.version = @ + 1]
                      cs2 == IF new_state = "published"
                             THEN [cs1 EXCEPT !.published_at = now(T)]
                             ELSE IF new_state = "archived"
                             THEN [cs1 EXCEPT !.archived_at = now(T)]
                             ELSE cs1
                      S2 == DictSet(S, card_id, cs2)
                  IN  [states |-> S2, file |-> save_states(S2),
                       saved |-> TRUE, clock |-> now(T), ret |-> TRUE]

transition_state(S, F, T, card_id, new_state) ==
    IF card_id \notin DOMAIN S
    THEN [states |-> S, file |-> F, saved |-> FALSE,
          clock |-> T, ret |-> FALSE]
    ELSE LET card_state == S[card_id]
             current_state == card_state.state
         IN  IF new_state \notin VALID_STATES
             THEN [states |-> S, file |-> F, saved |-> FALSE,
                   clock |-> T, ret |-> FALSE]
             ELSE IF new_state \notin VALID_TRANSITIONS[current_state]
             THEN [states |-> S, file |-> F, saved |-> FALSE,
                   clock |-> T, ret |-> FALSE]
             ELSE LET cs1 == [card_state EXCEPT !.state = new_state]
                      cs2 == IF new_state = "published"
                             THEN [cs1 EXCEPT !.published_at = now(T)]
                             ELSE IF new_state = "archived"
                             THEN [cs1 EXCEPT !.archived_at = now(T)]
                             ELSE cs1
                      S2 == DictSet(S, card_id, cs2)
                  IN  [states |-> S2, file |-> save_states(S2),
                       saved |-> TRUE, clock |-> now(T), ret |-> TRUE]

\* can_transition that allows every change between lifecycle states
can_transition_anychange(S, card_id, new_state) ==
    IF card_id \notin DOMAIN S
    THEN FALSE
    ELSE LET current_state == S[card_id].state
         IN  new_state \in VALID_STATES /\ new_state # current_state

can_transition(S, card_id, new_state) ==
    IF card_id \notin DOMAIN S
    THEN FALSE
    ELSE LET current_state == S[card_id].state
         IN  new_state \in DictGet(VALID_TRANSITIONS, current_state, {})

\* delete_card_state that refuses to remove a published record
delete_card_state_guarded(S, F, T, card_id) ==
    IF card_id \in DOMAIN S /\ S[card_id].state # "published"
    THEN LET S2 == DictDel(S, card_id)
         IN  [states |-> S2, file |-> save_states(S2), saved |-> TRUE,
              clock |-> T,
              ret |-> TRUE]
    ELSE [states |-> S, file |-> F, saved |-> FALSE,
          clock |-> T, ret |-> FALSE]

delete_card_state(S, F, T, card_id) ==
    IF card_id \in DOMAIN S
    THEN LET S2 == DictDel(S, card_id)
         IN  [states |-> S2, file |-> save_states(S2), saved |-> TRUE,
              clock |-> T,
              ret |-> TRUE]
    ELSE [states |-> S, file |-> F, saved |-> FALSE,
          clock |-> T, ret |-> FALSE]

\* list(self.states.values()); the model keeps no insertion order and lists
\* the records in an order fixed by the keys
RECURSIVE DictValues(_)
DictValues(S) ==
    IF DOMAIN S = {}
    THEN <<>>
    ELSE LET k == CHOOSE k \in DOMAIN S : TRUE
         IN  <<S[k]>> \o DictValues(DictDel(S, k))

get_cards_by_state(S, state) ==
    LET InState(card_state) == card_state.state = state
    IN  SelectSeq(DictValues(S), InState)

get_all_cards(S) == DictValues(S)

\* the loop of get_stats with type_counts[card_type] started at 1
RECURSIVE get_stats_loop_from1(_, _, _, _)
get_stats_loop_from1(values, i, stats, type_counts) ==
    IF i > Len(values)
    THEN [total |-> stats.total, draft |-> stats.draft,
          published |-> stats.published, archived |-> stats.archived,
          by_type |-> type_counts]
    ELSE LET card_state == values[i]
             stats2 == [stats EXCEPT ![card_state.state] = @ + 1]
             tc1 == IF card_state.card_type \notin DOMAIN type_counts
                    THEN DictSet(type_counts, card_state.card_type, 1)
                    ELSE type_counts
             tc2 == [tc1 EXCEPT ![card_state.card_type] = @ + 1]
         IN  get_stats_loop_from1(values, i + 1, stats2, tc2)

\* the loop of get_stats over the records, from position i on
RECURSIVE get_stats_loop(_, _, _, _)
get_stats_loop(values, i, stats, type_counts) ==
    IF i > Len(values)
    THEN [total |-> stats.total, draft |-> stats.draft,
          published |-> stats.published, archived |-> stats.archived,
          by_type |-> type_counts]
    ELSE LET card_state == values[i]
             stats2 == [stats EXCEPT ![card_state.state] = @ + 1]
             tc1 == IF card_state.card_type \notin DOMAIN type_counts
                    THEN DictSet(type_counts, card_state.card_type, 0)
                    ELSE type_counts
             tc2 == [tc1 EXCEPT ![card_state.card_type] = @ + 1]
         IN  get_stats_loop(values, i + 1, stats2, tc2)

get_stats(S) ==
    get_stats_loop(DictValues(S), 1,
                   [total |-> Cardinality(DOMAIN S), draft |-> 0,
                    published |-> 0, archived |-> 0],
                   EmptyDict)

\* the loop of bulk_transition leaving at the first failed transition
RECURSIVE bulk_loop_abort(_, _, _, _, _, _, _)
bulk_loop_abort(S, F, T, card_ids, new_state, i, results) ==
    IF i > Len(card_ids)
    THEN [states |-> S, file |-> F, saved |-> FALSE, clock |-> T,
          ret |-> results]
    ELSE LET r == transition_state(S, F, T, card_ids[i], new_state)
             res == DictSet(results, card_ids[i], r.ret)
         IN  IF r.ret
             THEN LET rest == bulk_loop_abort(r.states, r.file, r.clock,
                                              card_ids, new_state, i + 1, res)
                  IN  [rest EXCEPT !.saved = TRUE]
             ELSE [states |-> S, file |-> F, saved |-> FALSE, clock |-> T,
                   ret |-> [id \in Range(card_ids) |->
                               IF id \in DOMAIN res THEN res[id] ELSE FALSE]]

\* the loop of bulk_transition keeping the first result of a repeated id
RECURSIVE bulk_loop_first(_, _, _, _, _, _, _)
bulk_loop_first(S, F, T, card_ids, new_state, i, results) ==
    IF i > Len(card_ids)
    THEN [states |-> S, file |-> F, saved |-> FALSE, clock |-> T,
          ret |-> results]
    ELSE LET r == transition_state(S, F, T, card_ids[i], new_state)
             rest == bulk_loop_first(r.states, r.file, r.clock, card_ids,
                                     new_state, i + 1,
                                     IF card_ids[i] \in DOMAIN results
                                     THEN results
                                     ELSE DictSet(results, card_ids[i], r.ret))
         IN  [rest EXCEPT !.saved = @ \/ r.saved]

\* the loop of bulk_transition from position i on, results so far in results.
\* An OSError raised by _save_states inside transition_state leaves the loop:
\* the records moved so far stay moved and no result is returned.
RECURSIVE bulk_loop(_, _, _, _, _, _, _)
bulk_loop(S, F, T, card_ids, new_state, i, results) ==
    IF i > Len(card_ids)
    THEN [states |-> S, file |-> F, saved |-> FALSE, clock |-> T,
          ret |-> results]
    ELSE LET r == transition_state(S, F, T, card_ids[i], new_state)
         IN  IF r.saved /\ ~writable
             THEN r
             ELSE LET rest == bulk_loop(r.states, r.file, r.clock, card_ids,
                                        new_state, i + 1,
                                        DictSet(results, card_ids[i], r.ret))
                  IN  [rest EXCEPT !.saved = @ \/ r.saved]

bulk_transition(S, F, T, card_ids, new_state) ==
    bulk_loop(S, F, T, card_ids, new_state, 1, EmptyDict)

----------------------------------------------------------------------------
(* The state machine *)

\* the lists of ids bulk_transition is called with
IdLists == UNION {[1..n -> CardIds] : n \in 0..MaxBulkLen}

\* the (card_type, notes) pairs create_card_state is called with
CardKinds == {<<"resource_core", "">>, <<"commander", "note">>}

\* the ids whose record is in another lifecycle state in T than in S
Changed(S, T) ==
    {id \in DOMAIN S \cap DOMAIN T : S[id].state # T[id].state}

\* the history of the records after a call: a record that is published now
\* has been published; a card_id without a record has no history
History(S, old) ==
    {id \in DOMAIN S : S[id].state = "published" \/ id \in old}

\* the value of ret after a call that raised
NoValue == None

\* the step in which the manager makes the call whose outcome is r.  When r
\* called _save_states and the file cannot be opened for writing, open()
\* raises OSError after the map was changed: the file keeps its content and
\* the call returns nothing.
Step(name, r) ==
    /\ r.clock <= MaxTime
    /\ states' = r.states
    /\ state_file' = IF r.saved /\ writable THEN r.file ELSE state_file
    /\ file_kind' = IF r.saved /\ writable THEN "json" ELSE file_kind
    /\ raised' = IF r.saved /\ ~writable THEN "OSError" ELSE ""
    /\ interrupted' = IF r.saved /\ writable THEN <<>> ELSE interrupted
    /\ clock' = r.clock
    /\ op' = name
    /\ ret' = IF r.saved /\ ~writable THEN NoValue ELSE r.ret
    /\ changed' = Changed(states, r.states)
    /\ was_published' = History(r.states, was_published)
    /\ UNCHANGED <<writable, states2, core, app_vars>>

\* the step of a call that reads the map and returns value
Read(name, value) ==
    /\ op' = name
    /\ ret' = value
    /\ raised' = ""
    /\ changed' = {}
    /\ UNCHANGED <<states, state_file, file_kind, writable, interrupted,
                   states2, core, clock, was_published, app_vars>>

\* a manager constructed on a new data directory
\* no database is configured and nothing is stored in one, no page handler
\* has run, and no card_id has had a record
NoPage ==
    [core_size |-> "", attempts |-> 0, clicks |-> 0,
     generated_cards |-> <<>>, ui_cards |-> <<>>]

InitApp ==
    /\ db = "unset"
    /\ cards = EmptyDict
    /\ page = NoPage
    /\ id_states = {}

Init ==
    /\ states = EmptyDict
    /\ state_file = EmptyDict
    /\ file_kind = "json"
    /\ writable = TRUE
    /\ raised = ""
    /\ interrupted = <<>>
    /\ states2 = EmptyDict
    /\ core = NoCore
    /\ clock = 0
    /\ op = "init"
    /\ ret = FALSE
    /\ changed = {}
    /\ was_published = {}
    /\ InitApp

CreateCardState ==
    \E card_id \in CardIds, kind \in CardKinds :
      \E r \in {create_card_state(states, state_file, clock, card_id,
                                   kind[1], kind[2])} :
        Step("create_card_state", r)

TransitionState ==
    \E card_id \in CardIds, new_state \in NewStates :
      \E r \in {transition_state(states, state_file, clock, card_id,
                                  new_state)} :
        Step("transition_state", r)

BulkTransition ==
    \E card_ids \in IdLists, new_state \in NewStates :
      \E r \in {bulk_transition(states, state_file, clock, card_ids,
                                 new_state)} :
        Step("bulk_transition", r)

CanTransition ==
    \E card_id \in CardIds, new_state \in NewStates :
        Read("can_transition", can_transition(states, card_id, new_state))

GetStats == Read("get_stats", get_stats(states))

GetCardsByState ==
    \E state \in NewStates :
        Read("get_cards_by_state", get_cards_by_state(states, state))

DeleteCardState ==
    \E card_id \in CardIds :
      \E r \in {delete_card_state(states, state_file, clock, card_id)} :
        Step("delete_card_state", r)

\* the process is started again: a new CardStateManager on the same data
\* directory replaces the old one.  When __init__ raises there is no manager.
Open ==
    \E r \in {CardStateManager(file_kind, state_file)} :
        /\ states' = r.states
        /\ state_file' = r.file
        /\ file_kind' = r.kind
        /\ raised' = r.raised
        /\ op' = "__init__"
        /\ ret' = NoValue
        /\ changed' = {}
        /\ was_published' = History(r.states, was_published)
        /\ UNCHANGED <<writable, interrupted, states2, core, clock, app_vars>>

Next ==
    \/ CreateCardState
    \/ TransitionState
    \/ BulkTransition
    \/ CanTransition
    \/ DeleteCardState
    \/ GetStats
    \/ GetCardsByState
    \/ Open

Spec == Init /\ [][Next]_vars

----------------------------------------------------------------------------
(* Opening a manager on a data directory that is already there *)

\* a record as _save_states writes it: a published card
StoredRecord ==
    [card_id |-> "a", card_type |-> "resource_core", state |-> "published",
     created_at |-> 0, published_at |-> 0, archived_at |-> None,
     version |-> 1, notes |-> ""]

\* a record with nothing but the fields that have no default
RequiredOnlyRecord ==
    [card_id |-> "a", card_type |-> "commander", state |-> "draft",
     created_at |-> 0]

\* a record without created_at
MissingFieldRecord ==
    [card_id |-> "a", card_type |-> "commander", state |-> "draft"]

\* a record with a key that is no field of CardState
UnknownFieldRecord ==
    [card_id |-> "a", card_type |-> "commander", state |-> "draft",
     created_at |-> 0, rarity |-> "rare"]

\* the state files the manager is opened on: <<kind, content>>
StoredFiles ==
    {<<"missing", EmptyDict>>, <<"empty", EmptyDict>>, <<"text", EmptyDict>>,
     <<"list", EmptyDict>>, <<"json", EmptyDict>>,
     <<"json", [card_id \in {"a"} |-> StoredRecord]>>,
     <<"json", [card_id \in {"a"} |-> RequiredOnlyRecord]>>,
     <<"json", [card_id \in {"a"} |-> MissingFieldRecord]>>,
     <<"json", [card_id \in {"a"} |-> UnknownFieldRecord]>>}

\* there is a manager: __init__ has run and did not raise, and the process
\* has not died
Constructed ==
    /\ op \notin {"start", "crash"}
    /\ ~(op = "__init__" /\ raised # "")

\* a data directory with one of the state files, and no manager yet
InitLoad ==
    /\ states = EmptyDict
    /\ \E f \in StoredFiles : file_kind = f[1] /\ state_file = f[2]
    /\ writable = TRUE
    /\ raised = ""
    /\ interrupted = <<>>
    /\ states2 = EmptyDict
    /\ core = NoCore
    /\ clock = 0
    /\ op = "start"
    /\ ret = FALSE
    /\ changed = {}
    /\ was_published = {}
    /\ InitApp

NextLoad ==
    \/ Open
    \/ Constructed /\ CreateCardState
    \/ Constructed /\ TransitionState
    \/ Constructed /\ DeleteCardState

SpecLoad == InitLoad /\ [][NextLoad]_vars

----------------------------------------------------------------------------
(* A state file that stops being writable, and a process that dies while   *)
(* it saves                                                                *)

\* from now on open(self.state_file, 'w') raises OSError
StoreFails ==
    /\ Constructed
    /\ writable
    /\ writable' = FALSE
    /\ UNCHANGED <<states, state_file, file_kind, raised, interrupted,
                   states2, core, clock, op, ret, changed, was_published,
                   app_vars>>

\* what the file is when the process dies inside _save_states: open(.., 'w')
\* has emptied it, and json.dump has written nothing, a part of the text or
\* the whole text
CrashKinds == {"empty", "text", "json"}

\* the process dies in the call whose outcome would have been r, between
\* open(self.state_file, 'w') and the end of json.dump; the map in memory is
\* gone with the process
Crash(r) ==
    /\ r.saved
    /\ r.clock <= MaxTime
    /\ \E K \in CrashKinds :
          /\ file_kind' = K
          /\ state_file' = IF K = "json" THEN r.file ELSE EmptyDict
    /\ interrupted' = <<load_states(file_kind, state_file).states, r.states>>
    /\ clock' = r.clock
    /\ states' = EmptyDict
    /\ op' = "crash"
    /\ ret' = NoValue
    /\ raised' = ""
    /\ changed' = {}
    /\ UNCHANGED <<writable, states2, core, was_published, app_vars>>

CrashInSave ==
    /\ Constructed
    /\ writable
    /\ \/ \E card_id \in CardIds, kind \in CardKinds :
            Crash(create_card_state(states, state_file, clock, card_id,
                                    kind[1], kind[2]))
       \/ \E card_id \in CardIds, new_state \in NewStates :
            Crash(transition_state(states, state_file, clock, card_id,
                                   new_state))
       \/ \E card_id \in CardIds :
            Crash(delete_card_state(states, state_file, clock, card_id))

\* a manager whose state file stops being writable at some moment
NextDegraded ==
    \/ CreateCardState
    \/ TransitionState
    \/ BulkTransition
    \/ DeleteCardState
    \/ StoreFails

SpecDegraded == Init /\ [][NextDegraded]_vars

\* a process that may die while it saves and is started again
NextCrash ==
    \/ Constructed /\ CreateCardState
    \/ Constructed /\ TransitionState
    \/ Constructed /\ DeleteCardState
    \/ CrashInSave
    \/ Open

SpecCrash == Init /\ [][NextCrash]_vars

----------------------------------------------------------------------------
(* Two managers on one data directory, with no lock between them *)

\* the step in which the second manager makes the call whose outcome is r
Step2(name, r) ==
    /\ r.clock <= MaxTime
    /\ states2' = r.states
    /\ state_file' = IF r.saved /\ writable THEN r.file ELSE state_file
    /\ file_kind' = IF r.saved /\ writable THEN "json" ELSE file_kind
    /\ raised' = IF r.saved /\ ~writable THEN "OSError" ELSE ""
    /\ interrupted' = IF r.saved /\ writable THEN <<>> ELSE interrupted
    /\ clock' = r.clock
    /\ op' = name
    /\ ret' = IF r.saved /\ ~writable THEN NoValue ELSE r.ret
    /\ changed' = Changed(states2, r.states)
    /\ UNCHANGED <<states, writable, core, was_published, app_vars>>

CreateCardState2 ==
    \E card_id \in CardIds, kind \in CardKinds :
      \E r \in {create_card_state(states2, state_file, clock, card_id,
                                   kind[1], kind[2])} :
        Step2("create_card_state", r)

TransitionState2 ==
    \E card_id \in CardIds, new_state \in NewStates :
      \E r \in {transition_state(states2, state_file, clock, card_id,
                                  new_state)} :
        Step2("transition_state", r)

\* the second manager is constructed: it loads the map the file holds now
Open2 ==
    \E r \in {CardStateManager(file_kind, state_file)} :
        /\ states2' = r.states
        /\ state_file' = r.file
        /\ file_kind' = r.kind
        /\ raised' = r.raised
        /\ op' = "__init__"
        /\ ret' = NoValue
        /\ changed' = {}
        /\ UNCHANGED <<states, writable, interrupted, core, clock,
                       was_published, app_vars>>

NextTwo ==
    \/ CreateCardState
    \/ TransitionState
    \/ CreateCardState2
    \/ TransitionState2
    \/ Open2

SpecTwo == Init /\ [][NextTwo]_vars

----------------------------------------------------------------------------
(* A generated card taken through the workflow *)

\* generate_resource_core(resource_type), as far as the card id goes:
\* ResourceCore(...) is constructed without card_id and __post_init__ reads
\* the clock and hashes core_data
GenerateResourceCore ==
    \E resource_type \in ResourceTypes, hexdigest \in Sha256HexDigests :
        /\ now(clock) <= MaxTime
        /\ clock' = now(clock)
        /\ core' = [resource_type |-> resource_type,
                    card_id |-> post_init("", hexdigest)]
        /\ op' = "generate_resource_core"
        /\ ret' = core'
        /\ raised' = ""
        /\ changed' = {}
        /\ UNCHANGED <<states, state_file, file_kind, writable, interrupted,
                       states2, was_published, app_vars>>

\* the draft state of the generated card is created
CreateCoreState ==
    /\ core # NoCore
    /\ \E notes \in Notes :
         \E r \in {create_card_state(states, state_file, clock, core.card_id,
                                      "resource_core", notes)} :
           Step("create_card_state", r)

TransitionCoreState ==
    /\ core # NoCore
    /\ \E new_state \in NewStates :
         \E r \in {transition_state(states, state_file, clock, core.card_id,
                                     new_state)} :
           Step("transition_state", r)

CanTransitionCore ==
    /\ core # NoCore
    /\ \E new_state \in NewStates :
         Read("can_transition",
              can_transition(states, core.card_id, new_state))

NextScenario ==
    \/ GenerateResourceCore
    \/ CreateCoreState
    \/ TransitionCoreState
    \/ CanTransitionCore
    \/ GetCardsByState

SpecScenario == Init /\ [][NextScenario]_vars

----------------------------------------------------------------------------
(* card_database (src/card_database.py): the table generated_cards behind  *)
(* DATABASE_URL.  db is what the URL leads to: "unset" when the variable   *)
(* is not set or empty, "bad_url" when create_engine cannot parse it or    *)
(* load its driver and raises, "down" when the engine is created and every *)
(* statement sent to the database raises, "up" when the database answers.  *)
(* An operation yields [cards, clock, ret, raised]: the table and the      *)
(* clock after the call, the value returned, and the exception that left   *)
(* the call, "" when none.                                                 *)

DbStatuses == {"unset", "bad_url", "down", "up"}

\* ResourceCore(...): the dataclass with the card_id __post_init__ sets;
\* stat holds cost, rpt, hp and links
ResourceCore(size, tier, quality, stat, resource_type, rarity, hexdigest) ==
    [size |-> size, tier |-> tier, quality |-> quality, cost |-> stat.cost,
     rpt |-> stat.rpt, hp |-> stat.hp, links |-> stat.links,
     resource_type |-> resource_type, rarity |-> rarity,
     card_id |-> post_init("", hexdigest)]

\* get_db_engine(): the engine (FALSE for None), or the exception
\* create_engine raises
get_db_engine(D) ==
    [engine |-> D \in {"down", "up"},
     raised |-> IF D = "bad_url" THEN "ArgumentError" ELSE ""]

\* the frame every operation shares: engine = get_db_engine(); without an
\* engine the sentinel is returned; the rest runs in try, with a bare except
\* that returns the sentinel; result is the outcome when nothing raises
DbCall(D, C, T, sentinel, result) ==
    LET e == get_db_engine(D)
    IN  IF e.raised # ""
        THEN [cards |-> C, clock |-> T, ret |-> NoValue, raised |-> e.raised]
        ELSE IF ~e.engine \/ D = "down"
        THEN [cards |-> C, clock |-> T, ret |-> sentinel, raised |-> ""]
        ELSE result

\* GeneratedCard(...) as save_card fills it, created_at by its default
GeneratedCard(the_core, card_type, state, notes, T) ==
    [card_id |-> the_core.card_id, card_type |-> card_type, size |-> the_core.size,
     resource_type |-> the_core.resource_type, tier |-> the_core.tier,
     quality |-> the_core.quality, rarity |-> the_core.rarity, cost |-> the_core.cost,
     rpt |-> the_core.rpt, hp |-> the_core.hp, links |-> the_core.links,
     score |-> rarity_score(the_core.tier, the_core.quality), state |-> state,
     notes |-> notes, published_at |-> None, archived_at |-> None,
     created_at |-> T]

\* save_card: session.add and commit; a second row with the same primary
\* key raises IntegrityError, which the bare except turns into False
save_card(D, C, T, the_core, card_type, state, notes) ==
    DbCall(D, C, T, FALSE,
           IF the_core.card_id \in DOMAIN C
           THEN [cards |-> C, clock |-> T, ret |-> FALSE, raised |-> ""]
           ELSE [cards |-> DictSet(C, the_core.card_id,
                                   GeneratedCard(the_core, card_type, state,
                                                 notes, now(T))),
                 clock |-> now(T), ret |-> TRUE, raised |-> ""])

\* the rows of a set, latest created_at first
RECURSIVE OrderByCreatedAtDesc(_)
OrderByCreatedAtDesc(rows) ==
    IF rows = {}
    THEN <<>>
    ELSE LET first == CHOOSE r \in rows :
                         \A q \in rows : q.created_at <= r.created_at
         IN  <<first>> \o OrderByCreatedAtDesc(rows \ {first})

\* seq[:limit]
Limit(seq, limit) == SubSeq(seq, 1, IF Len(seq) < limit THEN Len(seq) ELSE limit)

load_recent_cards(D, C, T, limit, card_type) ==
    DbCall(D, C, T, <<>>,
           [cards |-> C, clock |-> T,
            ret |-> Limit(OrderByCreatedAtDesc(
                              {C[id] : id \in {i \in DOMAIN C :
                                  C[i].card_type = card_type}}), limit),
            raised |-> ""])

clear_all_cards(D, C, T, card_type) ==
    DbCall(D, C, T, FALSE,
           [cards |-> [id \in {i \in DOMAIN C : C[i].card_type # card_type}
                          |-> C[id]],
            clock |-> T, ret |-> TRUE, raised |-> ""])

\* valid_transitions of update_card_state, bulk_update_states and
\* can_transition
valid_transitions ==
    [draft |-> {"published", "archived"},
     published |-> {"archived"},
     archived |-> {}]

\* card.state = new_state and the timestamp of new_state
UpdatedCard(card, new_state, T) ==
    LET c1 == [card EXCEPT !.state = new_state]
    IN  IF new_state = "published"
        THEN [c1 EXCEPT !.published_at = T]
        ELSE IF new_state = "archived"
        THEN [c1 EXCEPT !.archived_at = T]
        ELSE c1

\* update_card_state that moves a card whatever its state
update_card_state_unchecked(D, C, T, card_id, new_state) ==
    DbCall(D, C, T, FALSE,
           IF card_id \notin DOMAIN C
           THEN [cards |-> C, clock |-> T, ret |-> FALSE, raised |-> ""]
           ELSE [cards |-> DictSet(C, card_id,
                                   UpdatedCard(C[card_id], new_state,
                                               now(T))),
                 clock |-> now(T), ret |-> TRUE, raised |-> ""])

update_card_state(D, C, T, card_id, new_state) ==
    DbCall(D, C, T, FALSE,
           IF card_id \notin DOMAIN C
           THEN [cards |-> C, clock |-> T, ret |-> FALSE, raised |-> ""]
           ELSE IF new_state \notin
                      DictGet(valid_transitions, C[card_id].state, {})
           THEN [cards |-> C, clock |-> T, ret |-> FALSE, raised |-> ""]
           ELSE [cards |-> DictSet(C, card_id,
                                   UpdatedCard(C[card_id], new_state,
                                               now(T))),
                 clock |-> now(T), ret |-> TRUE, raised |-> ""])

\* get_cards_by_state of card_database; card_type None is ""
card_database_get_cards_by_state(D, C, T, state, card_type) ==
    DbCall(D, C, T, <<>>,
           [cards |-> C, clock |-> T,
            ret |-> OrderByCreatedAtDesc(
                        {C[id] : id \in {i \in DOMAIN C :
                            /\ C[i].state = state
                            /\ card_type # "" =>
                                  C[i].card_type = card_type}}),
            raised |-> ""])

\* what get_state_stats returns without a database
ZeroStats ==
    [total |-> 0, draft |-> 0, published |-> 0, archived |-> 0,
     by_type |-> EmptyDict]

get_state_stats(D, C, T) ==
    LET InState(state) == Cardinality({id \in DOMAIN C : C[id].state = state})
        types == {C[id].card_type : id \in DOMAIN C}
    IN  DbCall(D, C, T, ZeroStats,
               [cards |-> C, clock |-> T,
                ret |-> [total |-> Cardinality(DOMAIN C),
                         draft |-> InState("draft"),
                         published |-> InState("published"),
                         archived |-> InState("archived"),
                         by_type |->
                            [t \in types |->
                                Cardinality({id \in DOMAIN C :
                                                C[id].card_type = t})]],
                raised |-> ""])

\* the loop of bulk_update_states from position i on, over the rows C of
\* the session
RECURSIVE bulk_update_loop(_, _, _, _, _)
bulk_update_loop(C, T, card_ids, new_state, i) ==
    IF i > Len(card_ids)
    THEN [cards |-> C, clock |-> T]
    ELSE LET card_id == card_ids[i]
         IN  IF /\ card_id \in DOMAIN C
                /\ new_state \in
                      DictGet(valid_transitions, C[card_id].state, {})
             THEN bulk_update_loop(
                      DictSet(C, card_id,
                              UpdatedCard(C[card_id], new_state, now(T))),
                      now(T), card_ids, new_state, i + 1)
             ELSE bulk_update_loop(C, T, card_ids, new_state, i + 1)

bulk_update_states(D, C, T, card_ids, new_state) ==
    LET l == bulk_update_loop(C, T, card_ids, new_state, 1)
    IN  DbCall(D, C, T, FALSE,
               [cards |-> l.cards, clock |-> l.clock, ret |-> TRUE,
                raised |-> ""])

\* can_transition of card_database
card_database_can_transition(D, C, T, card_id, new_state) ==
    DbCall(D, C, T, FALSE,
           [cards |-> C, clock |-> T,
            ret |-> IF card_id \notin DOMAIN C
                    THEN FALSE
                    ELSE new_state \in
                            DictGet(valid_transitions, C[card_id].state, {}),
            raised |-> ""])

----------------------------------------------------------------------------
(* generate_resource_core as one call, for the callers that only use the   *)
(* card it returns.  The tier is every tier roll_tier can give; the        *)
(* quality is one of PageQualities and each stat is the lowest value its   *)
(* weighted_roll can give, so that a call has 2 cards per tier and digest  *)
(* where the code has thousands; size, rarity and card_id are computed     *)
(* from them as the code does.                                             *)

PageQualities == {1, 100}

\* the least element of a set of integers
Lowest(S) == CHOOSE x \in S : \A y \in S : x <= y

\* generate_resource_core[resource_type]: the cards a call can return
generate_resource_core ==
    [resource_type \in ResourceTypes |->
        {LET size == determine_size_from_tier(tq[1])
             ranges == CORE_RANGES[size]
             weight == calculate_weight(tq[1], tq[2])
             stat(name) == Lowest(weighted_roll(ranges[name][1],
                                                ranges[name][2], weight))
         IN  ResourceCore(size, tq[1], tq[2],
                          [name \in Stats |-> stat(name)], resource_type,
                          determine_rarity(tq[1], tq[2]), hexdigest) :
           tq \in roll_tier \X (roll_quality \cap PageQualities),
           hexdigest \in Sha256HexDigests}]

----------------------------------------------------------------------------
(* One call of generate_resource_core after the other.  While a call runs, *)
(* core holds its local variables, a field that is not assigned yet being  *)
(* None or ""; op is the statement reached, and each step runs the call up *)
(* to and including its next random draw.                                  *)

\* the resource types generate_resource_core is called with
GenResourceTypes == {"Energy", "Omni"}

\* the locals of a call that has just been entered
EnteredCore(resource_type) ==
    [size |-> "", tier |-> None, quality |-> None, cost |-> None,
     rpt |-> None, hp |-> None, links |-> None,
     resource_type |-> resource_type, rarity |-> "", card_id |-> ""]

\* the step of the generator that leaves the locals c at statement name
GenStep(name, c) ==
    /\ core' = c
    /\ op' = name
    /\ ret' = NoValue
    /\ raised' = ""
    /\ changed' = {}
    /\ UNCHANGED <<states, state_file, file_kind, writable, interrupted,
                   states2, clock, was_published, app_vars>>

\* generate_resource_core(resource_type) is called
GenEnter ==
    /\ op \in {"init", "generate_resource_core"}
    /\ \E resource_type \in GenResourceTypes :
          GenStep("enter", EnteredCore(resource_type))

\* tier = roll_tier()
GenRollTier ==
    /\ op = "enter"
    /\ \E tier \in roll_tier :
          GenStep("roll_tier", [core EXCEPT !.tier = tier])

\* quality = roll_quality(); size = determine_size_from_tier(tier)
GenRollQuality ==
    /\ op = "roll_tier"
    /\ \E quality \in roll_quality :
          GenStep("roll_quality",
                  [core EXCEPT !.quality = quality,
                               !.size = determine_size_from_tier(core.tier)])

\* stat = weighted_roll(ranges[stat][0], ranges[stat][1], weight), with
\* weight = calculate_weight(tier, quality) and ranges = CORE_RANGES[size]
RolledStat(stat) ==
    LET weight == calculate_weight(core.tier, core.quality)
        ranges == CORE_RANGES[core.size]
    IN  weighted_roll(ranges[stat][1], ranges[stat][2], weight)

GenRollCost ==
    /\ op = "roll_quality"
    /\ \E cost \in RolledStat("cost") :
          GenStep("roll_cost", [core EXCEPT !.cost = cost])

GenRollRpt ==
    /\ op = "roll_cost"
    /\ \E rpt \in RolledStat("rpt") :
          GenStep("roll_rpt", [core EXCEPT !.rpt = rpt])

GenRollHp ==
    /\ op = "roll_rpt"
    /\ \E hp \in RolledStat("hp") :
          GenStep("roll_hp", [core EXCEPT !.hp = hp])

\* a return whose rarity is set from the rolled hp, not from the quality
GenReturn_rarity_of_stats ==
    /\ op = "roll_hp"
    /\ \E links \in RolledStat("links"), hexdigest \in Sha256HexDigests :
          /\ core' = [core EXCEPT
                        !.links = links,
                        !.rarity = determine_rarity(core.tier, core.hp * 8),
                        !.card_id = post_init("", hexdigest)]
          /\ op' = "generate_resource_core"
          /\ ret' = core'
          /\ raised' = ""
          /\ changed' = {}
          /\ UNCHANGED <<states, state_file, file_kind, writable,
                         interrupted, states2, clock, was_published,
                         app_vars>>

\* links = weighted_roll(...); rarity = determine_rarity(tier, quality);
\* return ResourceCore(...), whose __post_init__ sets card_id
GenReturn ==
    /\ op = "roll_hp"
    /\ \E links \in RolledStat("links"), hexdigest \in Sha256HexDigests :
          /\ core' = [core EXCEPT
                        !.links = links,
                        !.rarity = determine_rarity(core.tier, core.quality),
                        !.card_id = post_init("", hexdigest)]
          /\ op' = "generate_resource_core"
          /\ ret' = core'
          /\ raised' = ""
          /\ changed' = {}
          /\ UNCHANGED <<states, state_file, file_kind, writable,
                         interrupted, states2, clock, was_published,
                         app_vars>>

NextGen ==
    \/ GenEnter
    \/ GenRollTier
    \/ GenRollQuality
    \/ GenRollCost
    \/ GenRollRpt
    \/ GenRollHp
    \/ GenReturn

SpecGen == Init /\ [][NextGen]_vars

----------------------------------------------------------------------------
(* The three random functions called on their own.  After weighted_roll,   *)
(* ret holds <<min_val, max_val, weight, value>>: the arguments of the     *)
(* call and the value it returned.                                         *)

\* the largest min_val and max_val weighted_roll is called with
MaxRollVal == 10

\* the weights it is called with: 0.0, 0.001 (the lowest calculate_weight
\* returns), 0.01, 0.5 and 1.0
RollWeights ==
    {0, calculate_weight(1, 1), WeightUnit \div 100, WeightUnit \div 2,
     WeightUnit}

\* a call of one of the three functions returns value
Rolled(name, value) ==
    /\ op' = name
    /\ ret' = value
    /\ raised' = ""
    /\ changed' = {}
    /\ UNCHANGED <<states, state_file, file_kind, writable, interrupted,
                   states2, core, clock, was_published, app_vars>>

\* weighted_roll(min_val, max_val, weight)
WeightedRoll ==
    \E min_val \in 0..MaxRollVal, weight \in RollWeights :
    \E max_val \in min_val..MaxRollVal :
    \E value \in weighted_roll(min_val, max_val, weight) :
        Rolled("weighted_roll",
               <<min_val, max_val, weight, value>>)

\* roll_tier()
RollTier == \E tier \in roll_tier : Rolled("roll_tier", tier)

\* roll_quality()
RollQuality == \E quality \in roll_quality : Rolled("roll_quality", quality)

NextRoll ==
    \/ WeightedRoll
    \/ RollTier
    \/ RollQuality

SpecRoll == Init /\ [][NextRoll]_vars

----------------------------------------------------------------------------
(* A manager opened on a state file whose records were not written by      *)
(* _save_states: json.load and the CardState constructor accept any value  *)
(* for a field and any key for a record.                                   *)

\* a record whose state is no lifecycle state
UnknownStateRecord ==
    [card_id |-> "a", card_type |-> "commander", state |-> "retired",
     created_at |-> 0]

\* a record stored under another key than its card_id
OtherKeyRecord ==
    [card_id |-> "b", card_type |-> "commander", state |-> "draft",
     created_at |-> 0]

EditedFiles ==
    {<<"json", [card_id \in {"a"} |-> StoredRecord]>>,
     <<"json", [card_id \in {"a"} |-> UnknownStateRecord]>>,
     <<"json", [card_id \in {"a"} |-> OtherKeyRecord]>>}

InitEdited ==
    /\ states = EmptyDict
    /\ \E f \in EditedFiles : file_kind = f[1] /\ state_file = f[2]
    /\ writable = TRUE
    /\ raised = ""
    /\ interrupted = <<>>
    /\ states2 = EmptyDict
    /\ core = NoCore
    /\ clock = 0
    /\ op = "start"
    /\ ret = FALSE
    /\ changed = {}
    /\ was_published = {}
    /\ InitApp

\* the call name raises exception before it has assigned anything
Raises(name, exception) ==
    /\ op' = name
    /\ ret' = NoValue
    /\ raised' = exception
    /\ changed' = {}
    /\ UNCHANGED <<states, state_file, file_kind, writable, interrupted,
                   states2, core, clock, was_published, app_vars>>

\* transition_state: self.VALID_TRANSITIONS[current_state] raises KeyError
\* when the state of the record is no key of VALID_TRANSITIONS; it is
\* reached for a card_id of the map and a new_state of VALID_STATES
transition_state_raises(S, card_id, new_state) ==
    /\ card_id \in DOMAIN S
    /\ new_state \in VALID_STATES
    /\ S[card_id].state \notin DOMAIN VALID_TRANSITIONS

\* get_stats: stats[card_state.state] += 1 raises KeyError when the state
\* of a record is no key of stats
get_stats_raises(S) ==
    \E card_id \in DOMAIN S :
        S[card_id].state \notin {"total", "draft", "published", "archived"}

TransitionLoaded ==
    /\ Constructed
    /\ \E card_id \in CardIds, new_state \in NewStates :
          IF transition_state_raises(states, card_id, new_state)
          THEN Raises("transition_state", "KeyError")
          ELSE \E r \in {transition_state(states, state_file, clock,
                                          card_id, new_state)} :
                  Step("transition_state", r)

CanTransitionLoaded ==
    /\ Constructed
    /\ CanTransition

GetStatsLoaded ==
    /\ Constructed
    /\ IF get_stats_raises(states)
       THEN Raises("get_stats", "KeyError")
       ELSE GetStats

NextEdited ==
    \/ Open
    \/ Constructed /\ CreateCardState
    \/ TransitionLoaded
    \/ CanTransitionLoaded
    \/ GetStatsLoaded

SpecEdited == InitEdited /\ [][NextEdited]_vars

----------------------------------------------------------------------------
(* One manager, with the history of each card_id kept across deletion.     *)

\* the lifecycle states the card_ids have had, after a call that leaves the
\* map S
IdStates(S, old) == old \cup {<<id, S[id].state>> : id \in DOMAIN S}

\* Step, with the history of the card_ids
StepTracked(name, r) ==
    /\ r.clock <= MaxTime
    /\ states' = r.states
    /\ state_file' = IF r.saved /\ writable THEN r.file ELSE state_file
    /\ file_kind' = IF r.saved /\ writable THEN "json" ELSE file_kind
    /\ raised' = IF r.saved /\ ~writable THEN "OSError" ELSE ""
    /\ interrupted' = IF r.saved /\ writable THEN <<>> ELSE interrupted
    /\ clock' = r.clock
    /\ op' = name
    /\ ret' = IF r.saved /\ ~writable THEN NoValue ELSE r.ret
    /\ changed' = Changed(states, r.states)
    /\ was_published' = History(r.states, was_published)
    /\ id_states' = IdStates(r.states, id_states)
    /\ UNCHANGED <<writable, states2, core, db, cards, page>>

CreateTracked ==
    \E card_id \in CardIds, kind \in CardKinds :
      \E r \in {create_card_state(states, state_file, clock, card_id,
                                   kind[1], kind[2])} :
        StepTracked("create_card_state", r)

TransitionTracked ==
    \E card_id \in CardIds, new_state \in NewStates :
      \E r \in {transition_state(states, state_file, clock, card_id,
                                  new_state)} :
        StepTracked("transition_state", r)

BulkTracked ==
    \E card_ids \in IdLists, new_state \in NewStates :
      \E r \in {bulk_transition(states, state_file, clock, card_ids,
                                 new_state)} :
        StepTracked("bulk_transition", r)

DeleteTracked ==
    \E card_id \in CardIds :
      \E r \in {delete_card_state(states, state_file, clock, card_id)} :
        StepTracked("delete_card_state", r)

NextIds ==
    \/ CreateTracked
    \/ TransitionTracked
    \/ BulkTracked
    \/ DeleteTracked

SpecIds == Init /\ [][NextIds]_vars

----------------------------------------------------------------------------
(* determine_rarity called on its own, on every tier and quality.  Before  *)
(* the call ret holds the arguments <<tier, quality>>, after it            *)
(* <<tier, quality, rarity>>.                                              *)

InitRarity ==
    /\ states = EmptyDict
    /\ state_file = EmptyDict
    /\ file_kind = "json"
    /\ writable = TRUE
    /\ raised = ""
    /\ interrupted = <<>>
    /\ states2 = EmptyDict
    /\ core = NoCore
    /\ clock = 0
    /\ op = "arguments"
    /\ \E tier \in 1..10, quality \in 1..100 : ret = <<tier, quality>>
    /\ changed = {}
    /\ was_published = {}
    /\ InitApp

\* determine_rarity(tier, quality)
DetermineRarity ==
    /\ op = "arguments"
    /\ Rolled("determine_rarity",
              <<ret[1], ret[2], determine_rarity(ret[1], ret[2])>>)

NextRarity == DetermineRarity

SpecRarity == InitRarity /\ [][NextRarity]_vars

----------------------------------------------------------------------------
(* The operations of card_database called in any order, against a          *)
(* DATABASE_URL of each kind; a database that answers can go down and      *)
(* come back between two calls.                                            *)

InitDb ==
    /\ states = EmptyDict
    /\ state_file = EmptyDict
    /\ file_kind = "json"
    /\ writable = TRUE
    /\ raised = ""
    /\ interrupted = <<>>
    /\ states2 = EmptyDict
    /\ core = NoCore
    /\ clock = 0
    /\ op = "init"
    /\ ret = FALSE
    /\ changed = {}
    /\ was_published = {}
    /\ db \in DbStatuses
    /\ cards = EmptyDict
    /\ page = NoPage
    /\ id_states = {}

\* the ids the callers ask for
DbCardIds == {Slice(hexdigest, 12) : hexdigest \in Sha256HexDigests}

DbIdLists == UNION {[1..n -> DbCardIds] : n \in 0..MaxBulkLen}

\* the card_type arguments
DbCardTypes == {"Resource Core", "Commander"}

\* the cards given to save_card
DbCores ==
    {c \in generate_resource_core["Energy"] :
        c.tier \in {1, 10} /\ c.quality = 100}

\* the limit arguments of load_recent_cards
DbLimits == {1, 100}

DbOps ==
    {"save_card", "load_recent_cards", "clear_all_cards",
     "update_card_state", "get_cards_by_state", "get_state_stats",
     "bulk_update_states", "can_transition"}

\* one call of a card_database operation with outcome r
DbStep(name, r) ==
    /\ r.clock <= MaxTime
    /\ cards' = r.cards
    /\ clock' = r.clock
    /\ op' = name
    /\ ret' = r.ret
    /\ raised' = r.raised
    /\ UNCHANGED <<states, state_file, file_kind, writable, interrupted,
                   states2, core, changed, was_published, db, page,
                   id_states>>

SaveCard ==
    \E c \in DbCores, card_type \in DbCardTypes :
      \E r \in {save_card(db, cards, clock, c, card_type, "draft",
                          "Auto-generated")} :
        DbStep("save_card", r)

LoadRecentCards ==
    \E limit \in DbLimits, card_type \in DbCardTypes :
      \E r \in {load_recent_cards(db, cards, clock, limit, card_type)} :
        DbStep("load_recent_cards", r)

ClearAllCards ==
    \E card_type \in DbCardTypes :
      \E r \in {clear_all_cards(db, cards, clock, card_type)} :
        DbStep("clear_all_cards", r)

UpdateCardState ==
    \E card_id \in DbCardIds, new_state \in NewStates :
      \E r \in {update_card_state(db, cards, clock, card_id, new_state)} :
        DbStep("update_card_state", r)

GetCardsByStateDb ==
    \E state \in NewStates, card_type \in DbCardTypes \cup {""} :
      \E r \in {card_database_get_cards_by_state(db, cards, clock, state,
                                                 card_type)} :
        DbStep("get_cards_by_state", r)

GetStateStats ==
    \E r \in {get_state_stats(db, cards, clock)} :
      DbStep("get_state_stats", r)

BulkUpdateStates ==
    \E card_ids \in DbIdLists, new_state \in NewStates :
      \E r \in {bulk_update_states(db, cards, clock, card_ids, new_state)} :
        DbStep("bulk_update_states", r)

CanTransitionDb ==
    \E card_id \in DbCardIds, new_state \in NewStates :
      \E r \in {card_database_can_transition(db, cards, clock, card_id,
                                             new_state)} :
        DbStep("can_transition", r)

\* the database behind a usable URL stops answering, or answers again
DatabaseChanges ==
    /\ db \in {"down", "up"}
    /\ db' = IF db = "up" THEN "down" ELSE "up"
    /\ op' = "database"
    /\ ret' = NoValue
    /\ raised' = ""
    /\ UNCHANGED <<states, state_file, file_kind, writable, interrupted,
                   states2, core, clock, changed, was_published, cards,
                   page, id_states>>

NextDb ==
    \/ SaveCard
    \/ LoadRecentCards
    \/ ClearAllCards
    \/ UpdateCardState
    \/ GetCardsByStateDb
    \/ GetStateStats
    \/ BulkUpdateStates
    \/ CanTransitionDb
    \/ DatabaseChanges

SpecDb == InitDb /\ [][NextDb]_vars

----------------------------------------------------------------------------
(* The table and the manager side by side: a card is stored as a draft     *)
(* row and registered as a draft record, and from then on every transition *)
(* request is given to card_database and to the CardStateManager, the      *)
(* database first.  The database answers and the state file is writable.   *)
(* Each request reads the clock once on each side, so the clock runs to    *)
(* MirrorTime.                                                             *)

MirrorTime == 2 * MaxTime

\* an empty table behind a database that answers, an empty manager
InitMirror ==
    /\ states = EmptyDict
    /\ state_file = EmptyDict
    /\ file_kind = "json"
    /\ writable = TRUE
    /\ raised = ""
    /\ interrupted = <<>>
    /\ states2 = EmptyDict
    /\ core = NoCore
    /\ clock = 0
    /\ op = "init"
    /\ ret = FALSE
    /\ changed = {}
    /\ was_published = {}
    /\ db = "up"
    /\ cards = EmptyDict
    /\ page = NoPage
    /\ id_states = {}

\* one request with outcome d at the database and then m at the manager
MirrorStep(name, d, m) ==
    /\ m.clock <= MirrorTime
    /\ cards' = d.cards
    /\ states' = m.states
    /\ state_file' = IF m.saved /\ writable THEN m.file ELSE state_file
    /\ file_kind' = IF m.saved /\ writable THEN "json" ELSE file_kind
    /\ raised' = IF m.saved /\ ~writable THEN "OSError" ELSE d.raised
    /\ interrupted' = IF m.saved /\ writable THEN <<>> ELSE interrupted
    /\ clock' = m.clock
    /\ op' = name
    /\ ret' = <<d.ret, m.ret>>
    /\ changed' = Changed(states, m.states)
    /\ was_published' = History(m.states, was_published)
    /\ UNCHANGED <<writable, states2, core, db, page, id_states>>

\* save_card(core, state="draft") and create_card_state(core.card_id, ...)
\* for a card that neither side holds
MirrorCreate ==
    \E c \in DbCores :
      /\ c.card_id \notin DOMAIN cards
      /\ c.card_id \notin DOMAIN states
      /\ \E d \in {save_card("up", cards, clock, c, "Resource Core", "draft",
                             "Auto-generated")} :
           \E m \in {create_card_state(states, state_file, d.clock,
                                       c.card_id, "resource_core",
                                       "Auto-generated")} :
             MirrorStep("save_card", d, m)

\* update_card_state(card_id, new_state) and
\* transition_state(card_id, new_state)
MirrorTransition ==
    \E card_id \in DbCardIds, new_state \in NewStates :
      \E d \in {update_card_state("up", cards, clock, card_id, new_state)} :
        \E m \in {transition_state(states, state_file, d.clock, card_id,
                                   new_state)} :
          MirrorStep("update_card_state", d, m)

\* bulk_update_states(card_ids, new_state) and
\* bulk_transition(card_ids, new_state)
MirrorBulk ==
    \E card_ids \in DbIdLists, new_state \in NewStates :
      \E d \in {bulk_update_states("up", cards, clock, card_ids,
                                   new_state)} :
        \E m \in {bulk_transition(states, state_file, d.clock, card_ids,
                                  new_state)} :
          MirrorStep("bulk_update_states", d, m)

NextMirror ==
    \/ MirrorCreate
    \/ MirrorTransition
    \/ MirrorBulk

SpecMirror == InitMirror /\ [][NextMirror]_vars

----------------------------------------------------------------------------
(* The generate buttons of the two generator pages.  page holds what the   *)
(* Resource Generator page (src/pages/ResourceGen.py) selected and counted *)
(* in the click being served, the number of clicks served so far, and the  *)
(* list st.session_state.generated_cards of each page; core is the card    *)
(* in hand.  A click of the Resource Generator page is a first roll, then  *)
(* one step per turn of its while loop, then the save; a click of          *)
(* src/resource_generator_ui.py is one step.                               *)

MaxClicks == 1        \* the buttons are clicked at most MaxClicks times

\* attempts < 100
MaxAttempts == 100

\* the options of the Core Size selectbox of the Resource Generator page
CoreSizeOptions == {"Random", "Small", "Medium", "Large", "Massive"}

InitPage ==
    /\ states = EmptyDict
    /\ state_file = EmptyDict
    /\ file_kind = "json"
    /\ writable = TRUE
    /\ raised = ""
    /\ interrupted = <<>>
    /\ states2 = EmptyDict
    /\ core = NoCore
    /\ clock = 0
    /\ op = "init"
    /\ ret = FALSE
    /\ changed = {}
    /\ was_published = {}
    /\ db \in DbStatuses
    /\ cards = EmptyDict
    /\ page = NoPage
    /\ id_states = {}

\* the Generate button is clicked: core = generate_resource_core(resource_type)
PageGenerate ==
    /\ op \in {"init", "save_card", "ui_generate"}
    /\ raised = ""
    /\ page.clicks < MaxClicks
    /\ \E core_size \in CoreSizeOptions, resource_type \in GenResourceTypes :
          \E c \in generate_resource_core[resource_type] :
             /\ core' = c
             /\ page' = [page EXCEPT !.core_size = core_size,
                                     !.attempts = 0,
                                     !.clicks = @ + 1]
    /\ op' = "generate"
    /\ ret' = NoValue
    /\ UNCHANGED <<states, state_file, file_kind, writable, raised,
                   interrupted, states2, clock, changed, was_published, db,
                   cards, id_states>>

\* while core.size != core_size and attempts < 100
RerollAgain ==
    /\ page.core_size # "Random"
    /\ core.size # page.core_size
    /\ page.attempts < MaxAttempts

\* one turn of the loop: core = generate_resource_core(resource_type);
\* attempts += 1
PageReroll ==
    /\ op \in {"generate", "reroll"}
    /\ RerollAgain
    /\ \E c \in generate_resource_core[core.resource_type] : core' = c
    /\ page' = [page EXCEPT !.attempts = @ + 1]
    /\ op' = "reroll"
    /\ UNCHANGED <<states, state_file, file_kind, writable, raised,
                   interrupted, states2, clock, ret, changed, was_published,
                   db, cards, id_states>>

\* seq.insert(0, x)
Insert0(seq, x) == <<x>> \o seq

\* the loop is left: if save_card(core, card_type="Resource Core",
\* state="draft", notes="Auto-generated"): generated_cards.insert(0, core)
PageSave ==
    /\ op \in {"generate", "reroll"}
    /\ ~RerollAgain
    /\ \E r \in {save_card(db, cards, clock, core, "Resource Core", "draft",
                           "Auto-generated")} :
          /\ r.clock <= MaxTime
          /\ cards' = r.cards
          /\ clock' = r.clock
          /\ ret' = r.ret
          /\ raised' = r.raised
          /\ page' = IF r.raised = "" /\ r.ret = TRUE
                     THEN [page EXCEPT
                             !.generated_cards = Insert0(@, core)]
                     ELSE page
    /\ op' = "save_card"
    /\ UNCHANGED <<states, state_file, file_kind, writable, interrupted,
                   states2, core, changed, was_published, db, id_states>>

\* the options of the Core Size selectbox of resource_generator_ui.py
UiCoreSizeOptions == {"Small", "Medium", "Large", "Massive"}

\* core_data of resource_generator_ui.py with the card_id of its hash
MockCore(core_size, resource_type, hexdigest) ==
    [size |-> core_size, tier |-> 5, quality |-> 68, cost |-> 3, rpt |-> 2,
     hp |-> 5, links |-> 2, resource_type |-> resource_type,
     rarity |-> "Uncommon", card_id |-> Slice(hexdigest, 12)]

\* the Generate Resource Core button of resource_generator_ui.py: the mock
\* card is put into the session list and
\* manager.create_card_state(card_hash, "resource_core", notes) registers it
UiGenerate ==
    /\ op \in {"init", "save_card", "ui_generate"}
    /\ raised = ""
    /\ page.clicks < MaxClicks
    /\ \E core_size \in UiCoreSizeOptions, resource_type \in GenResourceTypes,
          hexdigest \in Sha256HexDigests :
          LET c == MockCore(core_size, resource_type, hexdigest)
              notes == core_size \o " " \o resource_type
                          \o " Core - Auto-generated"
          IN  \E r \in {create_card_state(states, state_file,
                                          now(now(clock)), c.card_id,
                                          "resource_core", notes)} :
                /\ r.clock <= MaxTime
                /\ core' = c
                /\ page' = [page EXCEPT
                              !.clicks = @ + 1,
                              !.ui_cards =
                                  Insert0(@, <<c, now(now(clock))>>)]
                /\ states' = r.states
                /\ state_file' = IF r.saved /\ writable
                                 THEN r.file ELSE state_file
                /\ file_kind' = IF r.saved /\ writable
                                THEN "json" ELSE file_kind
                /\ raised' = IF r.saved /\ ~writable THEN "OSError" ELSE ""
                /\ interrupted' = IF r.saved /\ writable
                                  THEN <<>> ELSE interrupted
                /\ clock' = r.clock
                /\ changed' = Changed(states, r.states)
                /\ was_published' = History(r.states, was_published)
    /\ op' = "ui_generate"
    /\ ret' = NoValue
    /\ UNCHANGED <<writable, states2, db, cards, id_states>>

NextPage ==
    \/ PageGenerate
    \/ PageReroll
    \/ PageSave
    \/ UiGenerate

SpecPage == InitPage /\ [][NextPage]_vars

----------------------------------------------------------------------------
(* Properties of the lifecycle *)

\* C1: a record's state changes only along draft -> published,
\* draft -> archived or published -> archived: no step takes a record from
\* published back to draft, and no step changes a record that is archived.
C1_ForwardOnly ==
    [][\A id \in DOMAIN states \cap DOMAIN states' :
          /\ \/ states'[id].state = states[id].state
             \/ <<states[id].state, states'[id].state>> \in ForwardMoves
          /\ states[id].state = "archived" => states'[id] = states[id]]_vars

\* a record has just been archived by transition_state after having been
\* published: it went draft -> published -> archived
C1_Witness ==
    /\ op = "transition_state"
    /\ ret = TRUE
    /\ \E id \in changed :
          /\ states[id].state = "archived"
          /\ states[id].published_at # None

\* C2: can_transition(card_id, new_state) is true exactly when card_id has a
\* record and (its state, new_state) is one of the three forward moves; so
\* it is false for an unknown id, for every target of an archived record,
\* for published -> draft, for a self-loop and for a target that is no
\* lifecycle state.
C2_CanTransitionTable ==
    \A id \in CardIds, new_state \in NewStates :
        can_transition(states, id, new_state)
            <=> /\ id \in DOMAIN states
                /\ <<states[id].state, new_state>> \in ForwardMoves

\* can_transition has just returned true with "a" published as the only
\* record: the call was can_transition("a", "archived")
C2_Witness ==
    /\ op = "can_transition"
    /\ ret = TRUE
    /\ DOMAIN states = {"a"}
    /\ states["a"].state = "published"

\* C3: transition_state(card_id, new_state) returns true iff
\* can_transition(card_id, new_state) is true in the state before the call,
\* and when it returns true the record's state is new_state afterwards.
C3_TransitionIffCan ==
    \A id \in CardIds, new_state \in NewStates :
        LET r == transition_state(states, state_file, clock, id, new_state)
        IN  /\ r.ret = can_transition(states, id, new_state)
            /\ r.ret => /\ id \in DOMAIN r.states
                        /\ r.states[id].state = new_state

\* transition_state has just returned true and published a record
C3_Witness ==
    /\ op = "transition_state"
    /\ ret = TRUE
    /\ \E id \in changed : states[id].state = "published"

\* C4: a transition_state call that fails (unknown id, target that is no
\* lifecycle state, target not allowed from the current state) returns false
\* and leaves every record of the map and the state file as they were.
C4_FailedTransitionNoEffect ==
    \A id \in CardIds, new_state \in NewStates :
        LET r == transition_state(states, state_file, clock, id, new_state)
        IN  (\/ id \notin DOMAIN states
             \/ new_state \notin VALID_STATES
             \/ <<states[id].state, new_state>> \notin ForwardMoves)
            => /\ r.ret = FALSE
               /\ r.states = states
               /\ r.file = state_file
               /\ r.clock = clock

\* transition_state has just returned false with one id unknown and the
\* other id's record archived
C4_Witness ==
    /\ op = "transition_state"
    /\ ret = FALSE
    /\ changed = {}
    /\ \E id \in DOMAIN states : states[id].state = "archived"
    /\ DOMAIN states # CardIds

\* C5: published_at is set iff the record has been in state published: it
\* is null for a draft and for a record archived straight from draft, set
\* for a published record and still set after published -> archived.
C5_PublishedAtIffEverPublished ==
    \A id \in DOMAIN states :
        /\ states[id].published_at # None <=> id \in was_published
        /\ states[id].state = "draft" => states[id].published_at = None
        /\ states[id].state = "published" => states[id].published_at # None

\* one record archived after having been published, the other still a
\* draft
C5_Witness ==
    \E id1, id2 \in DOMAIN states :
        /\ states[id1].state = "archived"
        /\ states[id1].published_at # None
        /\ id1 \in was_published
        /\ states[id2].state = "draft"
        /\ states[id2].published_at = None

\* C6: published_at and archived_at are set once: no transition_state or
\* bulk_transition call, successful or failed, changes a timestamp that is
\* set.
C6_TimestampsSetOnce ==
    [][op' \in {"transition_state", "bulk_transition"} =>
         \A id \in DOMAIN states \cap DOMAIN states' :
            /\ states[id].published_at # None
                  => states'[id].published_at = states[id].published_at
            /\ states[id].archived_at # None
                  => states'[id].archived_at = states[id].archived_at]_vars

\* a transition has just archived a record whose published_at was set by an
\* earlier call
C6_Witness ==
    /\ op \in {"transition_state", "bulk_transition"}
    /\ \E id \in changed :
          /\ states[id].archived_at = clock
          /\ states[id].published_at # None
          /\ states[id].published_at < clock

\* C7: create_card_state for a card_id that has a record returns that
\* record and changes nothing, whatever card_type and notes it is given.
C7_CreateIdempotent ==
    \A id \in DOMAIN states, card_type \in CardTypes, notes \in Notes :
        LET r == create_card_state(states, state_file, clock, id,
                                   card_type, notes)
        IN  /\ r.ret = states[id]
            /\ r.states = states
            /\ r.file = state_file

\* create_card_state has just returned a record that is no longer a draft:
\* the record existed before the call
C7_Witness ==
    /\ op = "create_card_state"
    /\ ret.state = "archived"
    /\ ret.published_at # None
    /\ states[ret.card_id] = ret

\* C8: create_card_state for a card_id without a record adds one record for
\* it: state draft, created_at the time of the call, published_at and
\* archived_at null, version 1; the other records stay, and the new map is
\* written to the state file.
C8_CreateStartsInDraft ==
    \A id \in CardIds \ DOMAIN states, card_type \in CardTypes,
       notes \in Notes :
        LET r == create_card_state(states, state_file, clock, id,
                                   card_type, notes)
        IN  /\ DOMAIN r.states = DOMAIN states \cup {id}
            /\ \A other \in DOMAIN states : r.states[other] = states[other]
            /\ r.clock > clock
            /\ r.states[id] =
                  [card_id |-> id, card_type |-> card_type, state |-> "draft",
                   created_at |-> r.clock, published_at |-> None,
                   archived_at |-> None, version |-> 1, notes |-> notes]
            /\ r.ret = r.states[id]
            /\ DOMAIN r.file = DOMAIN r.states
            /\ \A c \in DOMAIN r.file : r.file[c] = r.states[c]

\* create_card_state has just added a second record, a draft stamped with
\* the time of the call, and the file holds both records
C8_Witness ==
    /\ op = "create_card_state"
    /\ ret.state = "draft"
    /\ ret.created_at = clock
    /\ states[ret.card_id] = ret
    /\ DOMAIN states = CardIds
    /\ state_file = states

\* C9: bulk_transition treats the ids of a list of distinct ids one by one:
\* each id's result entry and resulting record are those of
\* transition_state(id, new_state) called for that id alone on the map
\* before the call (at the time the loop reaches the id); and bulk
\* publishing the ids of all drafts returns true for each of them and
\* leaves no draft.
C9_BulkIndependent ==
    \A card_ids \in IdLists, new_state \in NewStates :
        IsDistinct(card_ids) =>
            LET b == bulk_transition(states, state_file, clock, card_ids,
                                     new_state)
            IN  /\ \A i \in 1..Len(card_ids) :
                      LET id == card_ids[i]
                          before == bulk_transition(states, state_file, clock,
                                        SubSeq(card_ids, 1, i - 1), new_state)
                          alone == transition_state(states, state_file,
                                        before.clock, id, new_state)
                      IN  /\ b.ret[id] = alone.ret
                          /\ id \in DOMAIN b.states <=> id \in DOMAIN alone.states
                          /\ id \in DOMAIN b.states
                                => b.states[id] = alone.states[id]
                /\ \A id \in DOMAIN states \ Range(card_ids) :
                      /\ id \in DOMAIN b.states
                      /\ b.states[id] = states[id]
                /\ (/\ new_state = "published"
                    /\ Range(card_ids) =
                          {id \in DOMAIN states : states[id].state = "draft"})
                      => /\ \A id \in Range(card_ids) : b.ret[id] = TRUE
                         /\ \A id \in DOMAIN b.states :
                               b.states[id].state # "draft"

\* bulk_transition has just reported false for an id without a record and
\* true for the other id, whose record it published
C9_Witness ==
    /\ op = "bulk_transition"
    /\ \E id1, id2 \in DOMAIN ret :
          /\ ret[id1] = TRUE
          /\ id1 \in changed
          /\ states[id1].state = "published"
          /\ ret[id2] = FALSE
          /\ id2 \notin DOMAIN states

\* C10: the map bulk_transition returns has one entry per distinct id of
\* the list and no other key; the entry of an id that occurs more than once
\* is the result of the transition attempted at its last occurrence.
C10_BulkResultMap ==
    \A card_ids \in IdLists, new_state \in NewStates :
        LET b == bulk_transition(states, state_file, clock, card_ids,
                                 new_state)
        IN  /\ DOMAIN b.ret = Range(card_ids)
            /\ \A id \in Range(card_ids) :
                  LET last == LastIndex(card_ids, id)
                      before == bulk_transition(states, state_file, clock,
                                    SubSeq(card_ids, 1, last - 1), new_state)
                  IN  b.ret[id] =
                          transition_state(before.states, before.file,
                                           before.clock, id, new_state).ret

\* bulk_transition has just changed the state of a record and reports false
\* for it: the id was in the list twice, and the second attempt failed
C10_Witness ==
    /\ op = "bulk_transition"
    /\ \E id \in changed :
          /\ DOMAIN ret = {id}
          /\ ret[id] = FALSE

\* C11 as claimed: for every list, repeated ids included, the record of an
\* id of the list changed state during the bulk_transition call iff the
\* result map's entry for the id is true.
C11_Claimed ==
    op = "bulk_transition" =>
        \A id \in DOMAIN ret : id \in changed <=> ret[id] = TRUE

\* C11 as amended: a true entry means the record of the id changed state
\* during the call, and a false entry of an id that occurs once in the list
\* means it did not; an id that occurs more than once carries the result of
\* its last attempt only, so its record can have changed with a false entry.
C11_ResultMapTellsApplied ==
    \A card_ids \in IdLists, new_state \in NewStates :
        LET b == bulk_transition(states, state_file, clock, card_ids,
                                 new_state)
            moved == Changed(states, b.states)
        IN  \A id \in Range(card_ids) :
                /\ b.ret[id] = TRUE => id \in moved
                /\ Cardinality({i \in 1..Len(card_ids) : card_ids[i] = id}) = 1
                      => (id \in moved => b.ret[id] = TRUE)

\* bulk_transition over two distinct ids has just moved one record and
\* reports true for it, and false for the other, whose record did not move
C11_Witness ==
    /\ op = "bulk_transition"
    /\ DOMAIN ret = CardIds
    /\ DOMAIN states = CardIds
    /\ \E id1, id2 \in CardIds :
          /\ ret[id1] = TRUE /\ id1 \in changed
          /\ ret[id2] = FALSE /\ id2 \notin changed

\* C12: delete_card_state(card_id) removes the record whatever its state,
\* saves the map and returns true when card_id has a record; it returns
\* false and leaves map and state file unchanged when it has none; every
\* other record is left as it was.
C12_DeleteUnconditional ==
    \A id \in CardIds :
        LET r == delete_card_state(states, state_file, clock, id)
        IN  /\ r.ret = (id \in DOMAIN states)
            /\ DOMAIN r.states = DOMAIN states \ {id}
            /\ \A other \in DOMAIN r.states : r.states[other] = states[other]
            /\ id \in DOMAIN states
                  => /\ DOMAIN r.file = DOMAIN r.states
                     /\ \A c \in DOMAIN r.file : r.file[c] = r.states[c]
            /\ id \notin DOMAIN states
                  => /\ r.states = states
                     /\ r.file = state_file

\* delete_card_state has just removed a record (the clock has been read for
\* two creations and one transition) and left the other record, which is
\* published or archived, in the map and in the file
C12_Witness ==
    /\ op = "delete_card_state"
    /\ ret = TRUE
    /\ Cardinality(DOMAIN states) = 1
    /\ \A id \in DOMAIN states : states[id].state # "draft"
    /\ state_file = states

\* C13: get_stats counts the current map: total is the number of records,
\* total = draft + published + archived, the by_type counts sum to total,
\* each state count is the length of get_cards_by_state for that state, and
\* every record is in exactly one of the three state filters.
C13_StatsCountTheMap ==
    LET stats == get_stats(states)
    IN  /\ stats.total = Cardinality(DOMAIN states)
        /\ stats.total = stats.draft + stats.published + stats.archived
        /\ DictSum(stats.by_type) = stats.total
        /\ stats.draft = Len(get_cards_by_state(states, "draft"))
        /\ stats.published = Len(get_cards_by_state(states, "published"))
        /\ stats.archived = Len(get_cards_by_state(states, "archived"))
        /\ \A id \in DOMAIN states :
              Cardinality({s \in VALID_STATES :
                  states[id] \in Range(get_cards_by_state(states, s))}) = 1
        /\ \A card_type \in DOMAIN stats.by_type :
              stats.by_type[card_type] =
                  Cardinality({id \in DOMAIN states :
                                  states[id].card_type = card_type})

\* get_stats has just counted two records of two card types, one of them
\* archived and the other a draft
C13_Witness ==
    /\ op = "get_stats"
    /\ ret.total = 2
    /\ ret.draft = 1
    /\ ret.archived = 1
    /\ DOMAIN ret.by_type = CardTypes

----------------------------------------------------------------------------
(* Properties of the durable store *)

\* C14: with one manager and a file that can be written, after every
\* completed operation the state file holds the in-memory map: a new
\* CardStateManager on the same data directory does not raise and loads the
\* same card_ids with the same value in every field of every record.
C14_StoreEqualsMap ==
    LET m == CardStateManager(file_kind, state_file)
    IN  /\ m.raised = ""
        /\ DOMAIN m.states = DOMAIN states
        /\ \A card_id \in DOMAIN states :
              \A k \in CardStateFields :
                  m.states[card_id][k] = states[card_id][k]
        /\ op = "__init__" => changed = {} /\ raised = ""

\* a new manager has been opened on a directory that holds a draft record
\* and a record that went through published to archived
C14_Witness ==
    /\ op = "__init__"
    /\ raised = ""
    /\ DOMAIN states = CardIds
    /\ \E id1, id2 \in CardIds :
          /\ states[id1].state = "draft"
          /\ states[id2].state = "archived"
          /\ states[id2].published_at # None
          /\ states[id2].notes # states[id1].notes

\* C15: a CardStateManager opened on a data directory whose state file is
\* missing or empty has an empty map and __init__ does not raise; the first
\* create_card_state afterwards saves and returns a draft record, which is
\* then the one record of the map and of the file.
C15_MissingOrEmptyOpensEmpty ==
    /\ (op = "start" /\ file_kind \in {"missing", "empty"}) =>
          LET m == CardStateManager(file_kind, state_file)
          IN  /\ m.raised = ""
              /\ m.states = EmptyDict
              /\ \A card_id \in CardIds, kind \in CardKinds :
                    LET c == create_card_state(m.states, m.file, clock,
                                               card_id, kind[1], kind[2])
                    IN  /\ c.saved
                        /\ c.ret = CardState(card_id, kind[1], "draft",
                                             now(clock), kind[2])
                        /\ DOMAIN c.states = {card_id}
                        /\ c.states[card_id] = c.ret
                        /\ c.file = save_states(c.states)
    /\ (op = "__init__" /\ file_kind = "empty") =>
          raised = "" /\ states = EmptyDict

\* a manager has been opened on an empty state file
C15_Witness ==
    /\ op = "__init__"
    /\ file_kind = "empty"
    /\ raised = ""
    /\ states = EmptyDict

\* C16: opening a CardStateManager never raises: on every state file that
\* cannot be read (text that is not JSON, JSON that is not a mapping of
\* records, a record with a missing or an unknown field) the manager has an
\* empty map.
C16_LoadNeverRaises ==
    op = "__init__" =>
        /\ raised = ""
        /\ (file_kind # "json" => states = EmptyDict)

\* the methods that change the map
MutatingOps ==
    {"create_card_state", "transition_state", "bulk_transition",
     "delete_card_state"}

\* C17: when the state file cannot be written the manager goes on in memory:
\* create_card_state, transition_state, bulk_transition and
\* delete_card_state do not raise.
C17_DegradesToMemory ==
    op \in MutatingOps => raised = ""

\* C18: a save is atomic: when the process died inside _save_states, the
\* next manager opened on the directory does not raise and loads either the
\* whole map from before that save or the whole map that was being saved.
C18_SaveAtomic ==
    (op = "__init__" /\ interrupted # <<>>) =>
        /\ raised = ""
        /\ states \in {interrupted[1], interrupted[2]}

----------------------------------------------------------------------------
(* Two managers *)

\* C19: each manager loads the map once and every save rewrites the whole
\* file from the saving manager's own map: a step that changes the file is
\* a step of one manager, leaves in the file exactly that manager's map, and
\* adds to that map no record but the one the call created.  So a record the
\* other manager saved, and this one never loaded, is gone from the file:
\* updates are lost (C19_Witness).
C19_SaveRewritesOwnMap ==
    [][state_file' # state_file =>
          \/ /\ states2' = states2
             /\ state_file' = save_states(states')
             /\ \A id \in DOMAIN states' \ DOMAIN states :
                   op' = "create_card_state" /\ ret'.card_id = id
          \/ /\ states' = states
             /\ state_file' = save_states(states2')
             /\ \A id \in DOMAIN states2' \ DOMAIN states2 :
                   op' = "create_card_state" /\ ret'.card_id = id]_vars

\* the second manager has saved last: a record the first manager published
\* is in the file as the second manager holds it, without published_at, and
\* another record the first manager created is not in the file
C19_Witness ==
    /\ state_file = save_states(states2)
    /\ \E id1, id2 \in DOMAIN states :
          /\ id2 \notin DOMAIN state_file
          /\ id1 \in DOMAIN state_file
          /\ states[id1].state = "published"
          /\ state_file[id1].published_at = None

----------------------------------------------------------------------------
(* The workflow end to end *)

\* C20: starting from an empty store, a generated card has an id of length
\* 12; when create_card_state has just created its record (created_at is
\* the clock's last reading) and it is the one record of the map, the
\* record is a draft, can_transition(id, "archived") is true and
\* transition_state(id, "archived") succeeds; once it is archived,
\* can_transition(id, "published") is false and
\* get_cards_by_state("archived") is the list of exactly that record.
C20_EndToEnd ==
    /\ core # NoCore => Len(core.card_id) = 12
    /\ (/\ op = "create_card_state"
        /\ DOMAIN states = {core.card_id}
        /\ changed = {}
        /\ states[core.card_id].created_at = clock) =>
          LET id == core.card_id
              t == transition_state(states, state_file, clock, id, "archived")
          IN  /\ states[id].state = "draft"
              /\ can_transition(states, id, "archived")
              /\ t.ret
              /\ ~can_transition(t.states, id, "published")
              /\ get_cards_by_state(t.states, "archived") = <<t.states[id]>>
              /\ t.states[id].card_id = id
    /\ (/\ op \in {"transition_state", "can_transition",
                   "get_cards_by_state"}
        /\ DOMAIN states = {core.card_id}
        /\ states[core.card_id].state = "archived") =>
          /\ ~can_transition(states, core.card_id, "published")
          /\ get_cards_by_state(states, "archived") = <<states[core.card_id]>>

\* the generated card was created and archived, and
\* get_cards_by_state("archived") has just returned the list of its record
C20_Witness ==
    /\ op = "get_cards_by_state"
    /\ core # NoCore
    /\ Len(core.card_id) = 12
    /\ DOMAIN states = {core.card_id}
    /\ states[core.card_id].state = "archived"
    /\ ret = <<states[core.card_id]>>

----------------------------------------------------------------------------
(* Properties of the generator *)

\* a card has been returned by generate_resource_core
Generated == op = "generate_resource_core"

\* value lies in the inclusive range <<min, max>>
InRange(value, range) == range[1] <= value /\ value <= range[2]

\* C21: every card generate_resource_core returns has tier in 1..10,
\* quality in 1..100, and cost, rpt, hp and links each in the inclusive range
\* CORE_RANGES gives for the card's size; a Small card has cost 0, rpt 2,
\* links 1 and hp in 2..4.
C21_StatsInRange ==
    Generated =>
        /\ core.tier \in 1..10
        /\ core.quality \in 1..100
        /\ core.size \in Sizes
        /\ \A stat \in Stats : InRange(core[stat], CORE_RANGES[core.size][stat])
        /\ core.size = "Small" =>
              /\ core.cost = 0
              /\ core.rpt = 2
              /\ core.links = 1
              /\ core.hp \in 2..4

\* a Massive card of tier 10 and quality 100 has been returned with every
\* stat at the top of its range
C21_Witness ==
    /\ Generated
    /\ core.tier = 10
    /\ core.quality = 100
    /\ core.size = "Massive"
    /\ \A stat \in Stats : core[stat] = CORE_RANGES["Massive"][stat][2]

\* the size the tier table gives
SizeOfTier ==
    [tier \in 1..10 |->
        IF tier \in 1..3 THEN "Small"
        ELSE IF tier \in 4..6 THEN "Medium"
        ELSE IF tier \in 7..8 THEN "Large"
        ELSE "Massive"]

\* C22: determine_size_from_tier returns Small for tiers 1-3, Medium for 4-6,
\* Large for 7-8 and Massive for 9-10, and the size of every card
\* generate_resource_core returns is the one of its tier.
C22_SizeFromTier ==
    Generated =>
        /\ \A tier \in 1..10 : determine_size_from_tier(tier) = SizeOfTier[tier]
        /\ core.size = SizeOfTier[core.tier]

\* a card of tier 9, the lowest Massive tier, has been returned
C22_Witness ==
    /\ Generated
    /\ core.tier = 9
    /\ core.size = "Massive"

\* the rarity band of ten times the exact score, 7 * quality + 30 * tier
RarityOfScore10(score10) ==
    {rarity \in Rarities :
        \/ rarity = "Legendary" /\ score10 >= 980
        \/ rarity = "Epic" /\ 900 <= score10 /\ score10 < 980
        \/ rarity = "Rare" /\ 750 <= score10 /\ score10 < 900
        \/ rarity = "Uncommon" /\ 550 <= score10 /\ score10 < 750
        \/ rarity = "Common" /\ score10 < 550}

\* C23: for every tier in 1..10 and quality in 1..100, determine_rarity
\* returns exactly one rarity, the band of score = quality*0.7 + tier*3 read
\* exactly (10 * score = 7 * quality + 30 * tier): Legendary from 98, Epic
\* from 90, Rare from 75, Uncommon from 55, Common below; a score equal to a
\* threshold belongs to the band that starts there.
C23_RarityPartition ==
    Generated =>
        /\ core.rarity = determine_rarity(core.tier, core.quality)
        /\ RarityOfScore10(7 * core.quality + 30 * core.tier) = {core.rarity}

\* a card whose exact score is the threshold 90 (quality 90 at tier 9, where
\* quality * 0.7 is the double just below 63) has been returned as Epic
C23_Witness ==
    /\ Generated
    /\ core.tier = 9
    /\ core.quality = 90
    /\ 7 * core.quality + 30 * core.tier = 900
    /\ core.rarity = "Epic"

\* the order of the rarities
RarityRank ==
    [rarity \in Rarities |->
        CASE rarity = "Common" -> 0
          [] rarity = "Uncommon" -> 1
          [] rarity = "Rare" -> 2
          [] rarity = "Epic" -> 3
          [] rarity = "Legendary" -> 4]

\* X <= Y for two doubles
DoubleLeq(X, Y) ==
    \/ X[3] < Y[3]
    \/ X[3] = Y[3] /\ X[2] < Y[2]
    \/ X[3] = Y[3] /\ X[2] = Y[2] /\ X[1] <= Y[1]

\* neither the score nor the rank of the rarity falls from (t1, q1) to
\* (t2, q2)
NotLower(t1, q1, t2, q2) ==
    /\ DoubleLeq(rarity_score(t1, q1), rarity_score(t2, q2))
    /\ RarityRank[determine_rarity(t1, q1)]
          <= RarityRank[determine_rarity(t2, q2)]

\* C24: for the tier and quality of a call, one tier more at the same
\* quality, or one quality point more at the same tier, lowers neither the
\* score quality*0.7 + tier*3 nor the rarity in the order Common < Uncommon
\* < Rare < Epic < Legendary.
C24_Monotone ==
    op = "roll_quality" =>
        /\ core.tier < 10 =>
              NotLower(core.tier, core.quality, core.tier + 1, core.quality)
        /\ core.quality < 100 =>
              NotLower(core.tier, core.quality, core.tier, core.quality + 1)

\* tier 8 and quality 94 have been rolled: Rare, and Epic both one tier and
\* one quality point higher
C24_Witness ==
    /\ op = "roll_quality"
    /\ core.tier = 8
    /\ core.quality = 94
    /\ determine_rarity(8, 94) = "Rare"
    /\ determine_rarity(9, 94) = "Epic"
    /\ determine_rarity(8, 95) = "Epic"

\* C25: the size and the rarity of a card generate_resource_core returns are
\* functions of its tier and quality alone: with the same tier and quality,
\* whatever the resource type, the rolled stats and the id, the size is
\* determine_size_from_tier(tier) and the rarity is
\* determine_rarity(tier, quality).
C25_DerivedFromRolls ==
    Generated =>
        /\ core.resource_type \in GenResourceTypes
        /\ core.card_id \in {Slice(h, 12) : h \in Sha256HexDigests}
        /\ <<core.size, core.rarity>> =
              <<determine_size_from_tier(core.tier),
                determine_rarity(core.tier, core.quality)>>

\* a tier 10, quality 100 card of type Omni, with every stat at the bottom
\* of the Massive ranges, has been returned as Legendary
C25_Witness ==
    /\ Generated
    /\ core.tier = 10
    /\ core.quality = 100
    /\ core.resource_type = "Omni"
    /\ \A stat \in Stats : core[stat] = CORE_RANGES["Massive"][stat][1]
    /\ \E h \in Sha256HexDigests : core.card_id = Slice(h, 12)
    /\ core.rarity = "Legendary"

----------------------------------------------------------------------------
(* Properties of the random functions *)

\* the selection weight weighted_roll gives the value v of min_val..max_val
SelectionWeight(min_val, max_val, weight, v) ==
    weighted_roll_weights(max_val - min_val + 1, weight)[v - min_val + 1]

\* C26: weighted_roll(low, high, bias) with low <= high and bias in [0, 1]
\* returns an integer of low..high; it returns low when low = high; and
\* every integer of low..high can be returned, every selection weight
\* 1 + i*bias*10 being positive.
C26_RollInRange ==
    op = "weighted_roll" =>
        /\ ret[4] \in ret[1]..ret[2]
        /\ ret[1] = ret[2] => ret[4] = ret[1]
        /\ weighted_roll(ret[1], ret[2], ret[3])
              = ret[1]..ret[2]
        /\ \A v \in ret[1]..ret[2] :
              SelectionWeight(ret[1], ret[2], ret[3], v) > 0

\* weighted_roll(1, 10, 0.0) has returned 1
C26_Witness ==
    /\ op = "weighted_roll"
    /\ ret[1] = 1
    /\ ret[2] = 10
    /\ ret[3] = 0
    /\ ret[4] = 1

\* weighted_roll(5, 5, 1.0) has returned 5
C26_WitnessEqual ==
    /\ op = "weighted_roll"
    /\ ret[1] = 5
    /\ ret[2] = 5
    /\ ret[3] = WeightUnit
    /\ ret[4] = 5

\* C27: in weighted_roll over more than one value, a bias near 0 (0.01 or
\* less) gives low a greater selection weight than high.
C27_LowBiasFavoursLow ==
    (/\ op = "weighted_roll"
     /\ ret[1] < ret[2]
     /\ ret[3] <= WeightUnit \div 100) =>
        SelectionWeight(ret[1], ret[2], ret[3], ret[1])
          > SelectionWeight(ret[1], ret[2], ret[3], ret[2])

\* C28: roll_tier selects tier t of 1..10 with weight 11 - t and roll_quality
\* selects quality q of 1..100 with weight 101 - q: the weight of tier 1 is
\* 10 times that of tier 10, the weight of quality 1 is 100 times that of
\* quality 100, and every weight is positive, so every value can be rolled.
C28_RollTables ==
    /\ op = "roll_tier" =>
          /\ ret \in 1..10
          /\ roll_tier_weights[ret] = 11 - ret
          /\ roll_tier_weights[ret] > 0
          /\ roll_tier_weights[1] = 10 * roll_tier_weights[10]
          /\ roll_tier = 1..10
    /\ op = "roll_quality" =>
          /\ ret \in 1..100
          /\ roll_quality_weights[ret] = 101 - ret
          /\ roll_quality_weights[ret] > 0
          /\ roll_quality_weights[1] = 100 * roll_quality_weights[100]
          /\ roll_quality = 1..100

\* roll_quality has returned 100, the value of weight 1
C28_Witness ==
    /\ op = "roll_quality"
    /\ ret = 100
    /\ roll_quality_weights[ret] = 1

----------------------------------------------------------------------------
(* The frame of a transition *)

\* the fields of a CardState no transition assigns
FrameFields == {"card_id", "card_type", "created_at", "version", "notes"}

\* C29: a successful transition_state changes, in the map, only the state of
\* its target record and the one timestamp of the state reached
\* (published_at for published, archived_at for archived, set to the time
\* of the call): the record's card_id, card_type, created_at, version and
\* notes, its other timestamp, and every other record are as before, and
\* the version is still 1.
C29_TransitionFrame ==
    [][(op' = "transition_state" /\ raised' = "" /\ ret' = TRUE) =>
          /\ DOMAIN states' = DOMAIN states
          /\ \E id \in DOMAIN states :
                /\ \A other \in DOMAIN states \ {id} :
                      states'[other] = states[other]
                /\ states'[id].state # states[id].state
                /\ \A f \in FrameFields : states'[id][f] = states[id][f]
                /\ states'[id].version = 1
                /\ states'[id].state = "published" =>
                      /\ states'[id].published_at = clock'
                      /\ states'[id].archived_at = states[id].archived_at
                /\ states'[id].state = "archived" =>
                      /\ states'[id].archived_at = clock'
                      /\ states'[id].published_at = states[id].published_at
                /\ states'[id].state \notin {"published", "archived"} =>
                      /\ states'[id].published_at = states[id].published_at
                      /\ states'[id].archived_at = states[id].archived_at
      ]_vars

\* a record published earlier has just been archived by transition_state,
\* next to another record: it keeps its published_at and its version 1
C29_Witness ==
    /\ op = "transition_state"
    /\ raised = ""
    /\ ret = TRUE
    /\ \E id \in changed :
          /\ states[id].state = "archived"
          /\ states[id].archived_at = clock
          /\ states[id].published_at # None
          /\ states[id].published_at < clock
          /\ states[id].version = 1
          /\ DOMAIN states # {id}

----------------------------------------------------------------------------
(* Two pages, two managers *)

\* C30: with the Resource Generator page on the first manager and the
\* Publisher Dashboard on the second, both over the same file, every record
\* the first manager holds is among the second manager's get_all_cards and
\* is in the file.
C30_SeenByDashboardAndKept ==
    \A id \in DOMAIN states :
        /\ \E card_state \in Range(get_all_cards(states2)) :
              card_state.card_id = id
        /\ id \in DOMAIN state_file

----------------------------------------------------------------------------
(* Which rarities can be reached *)

\* the qualities for which determine_rarity(tier, quality) is rarity
QualitiesGiving(tier, rarity) ==
    {quality \in 1..100 : determine_rarity(tier, quality) = rarity}

\* C34: for the tier of every call of determine_rarity there is a quality
\* in 1..100 for which determine_rarity returns Epic.
C34_EpicAtEveryTier ==
    op = "determine_rarity" => QualitiesGiving(ret[1], "Epic") # {}

\* C35: determine_rarity returns Legendary only for tier 9 or 10 with
\* quality 95 or more, and some quality of tier 10 gives Legendary.
C35_LegendaryNearMaximum ==
    op = "determine_rarity" =>
        /\ ret[3] = "Legendary" => ret[1] \in {9, 10} /\ ret[2] >= 95
        /\ \A quality \in QualitiesGiving(ret[1], "Legendary") :
              ret[1] \in {9, 10} /\ quality >= 95
        /\ QualitiesGiving(10, "Legendary") # {}

\* determine_rarity(10, 98) has returned Legendary
C35_Witness ==
    /\ op = "determine_rarity"
    /\ ret[1] = 10
    /\ ret[2] = 98
    /\ ret[3] = "Legendary"

----------------------------------------------------------------------------
(* archived_at *)

\* C38: in every state of a manager that started from an empty store, the
\* archived_at of a record is set if and only if the record is archived.
C38_ArchivedAtIffArchived ==
    \A id \in DOMAIN states :
        states[id].archived_at # None <=> states[id].state = "archived"

\* one record archived after having been published, next to a record that
\* is not archived and has no archived_at
C38_Witness ==
    \E id1, id2 \in DOMAIN states :
        /\ states[id1].state = "archived"
        /\ states[id1].archived_at # None
        /\ states[id1].published_at # None
        /\ states[id2].state # "archived"
        /\ states[id2].archived_at = None

----------------------------------------------------------------------------
(* The lifecycle of a card id *)

\* C36: under any sequence of create_card_state, transition_state,
\* bulk_transition and delete_card_state, a card_id that has had a
\* published record has no draft record, and a card_id that has had an
\* archived record has no draft and no published record.
C36_ForwardOnlyPerId ==
    \A id \in DOMAIN states :
        /\ <<id, "published">> \in id_states => states[id].state # "draft"
        /\ <<id, "archived">> \in id_states =>
              states[id].state \notin {"draft", "published"}

----------------------------------------------------------------------------
(* Well-formedness of the map *)

\* C37: in every state of a constructed manager, right after loading
\* included, every record's state is one of draft, published, archived and
\* every key of the map is the card_id of its record, and transition_state,
\* can_transition and get_stats do not raise KeyError.
C37_WellFormedMap ==
    Constructed =>
        /\ \A id \in DOMAIN states :
              /\ states[id].state \in VALID_STATES
              /\ states[id].card_id = id
        /\ raised # "KeyError"

\* what each card_database operation returns on failure
Sentinel(name) ==
    IF name \in {"load_recent_cards", "get_cards_by_state"}
    THEN <<>>
    ELSE IF name = "get_state_stats"
    THEN ZeroStats
    ELSE FALSE

\* C33: whenever a card_database operation is called while no database is
\* configured, the configured URL is unusable, or the database raises during
\* the operation, the call raises nothing, changes no stored card and
\* returns its sentinel: False, an empty list, or all-zero counts.
C33_TotalOnFailure ==
    [][(db # "up" /\ op' \in DbOps) =>
          /\ raised' = ""
          /\ cards' = cards
          /\ ret' = Sentinel(op')]_vars


\* C32: a row and a record that started as drafts and were given the same
\* transition requests have the same state and the same timestamps set: the
\* row's state column equals the record's state, published_at and
\* archived_at are null on one side exactly when they are on the other, and
\* can_transition of card_database answers as can_transition of the
\* CardStateManager for every card id and target state.
C32_DatabaseMirrorsManager ==
    /\ DOMAIN cards = DOMAIN states
    /\ \A card_id \in DOMAIN cards :
          /\ cards[card_id].state = states[card_id].state
          /\ (cards[card_id].published_at = None)
                <=> (states[card_id].published_at = None)
          /\ (cards[card_id].archived_at = None)
                <=> (states[card_id].archived_at = None)
    /\ \A card_id \in DbCardIds, new_state \in NewStates :
          card_database_can_transition(db, cards, clock, card_id,
                                       new_state).ret
             = can_transition(states, card_id, new_state)

\* a card published and then archived on both sides, next to a draft
C32_Witness ==
    /\ op = "update_card_state"
    /\ ret = <<TRUE, TRUE>>
    /\ \E a \in DOMAIN cards, b \in DOMAIN cards :
          /\ cards[a].state = "archived" /\ states[a].state = "archived"
          /\ cards[a].published_at # None /\ states[a].published_at # None
          /\ cards[b].state = "draft" /\ states[b].state = "draft"


\* the card in hand is stored: it has a row in the table, or it is in the
\* session list of the page that generated it
CardStored ==
    \/ /\ op = "save_card"
       /\ core.card_id \in DOMAIN cards
    \/ /\ op = "ui_generate"
       /\ \E i \in 1..Len(page.ui_cards) : page.ui_cards[i][1] = core

\* C31: once the generate action of either generator page has completed,
\* the generated card is stored and the CardStateManager holds a draft
\* record under the card's id.
C31_StoredAndRegistered ==
    op \in {"save_card", "ui_generate"} =>
       /\ CardStored
       /\ core.card_id \in DOMAIN states
       /\ states[core.card_id].state = "draft"

\* C39: when a specific size is selected on the Resource Generator page,
\* the generate action ends after at most 100 re-rolls, and the card it
\* saves as a draft has the selected size.
C39_SavedCardHasSelectedSize ==
    (op = "save_card" /\ page.core_size # "Random") =>
       /\ page.attempts <= 100
       /\ (raised = "" /\ ret = TRUE) =>
             /\ cards[core.card_id].state = "draft"
             /\ cards[core.card_id].size = page.core_size


====
